---- MODULE Spec2Model ----
(***************************************************************************)
(* BTP (Bluetooth Transport Protocol) session core of matter.js:           *)
(* BtpSessionHandler - inbound sequence/ack validation and reassembly,     *)
(* outbound segmentation and windowing, the ack-receive and send-ack       *)
(* timers, and close().                                                    *)
(*                                                                         *)
(* One session is modelled.  Every public entry point and every timer      *)
(* callback is one action; the two places where the code suspends          *)
(* (await writeBleCallback in processSendQueue and in                      *)
(* btpSendAckTimeoutTriggered) split their method into the part before     *)
(* the await and the continuation after it.                                *)
(***************************************************************************)
EXTENDS Integers, Sequences, FiniteSets, TLC

\* ------------------------------------------------------------------ bounds
\* inbound sequence numbers explored by Spec: frames 0 .. MaxInbound - 1
MaxInbound == 2
\* outbound work explored by Spec: frames sent plus messages queued
MaxOutbound == 1
\* largest ack number the peer is made to try
MaxPeerAck == 1
\* inbound sequence numbers explored by SpecInbound
MaxSegments == 4
\* largest message length a begin frame announces in SpecInbound
MaxMessageLength == 3

\* --------------------------------------------------------- program constants
MINIMUM_ATT_MTU == 23
MAXIMUM_BTP_MTU == 247
MAXIMUM_WINDOW_SIZE == 255

VARIABLES
    fragmentSize,                        \* constructor parameter
    clientWindowSize,                    \* constructor parameter
    currentIncomingSegmentedMsgLength,   \* None or Some(n)
    currentIncomingSegmentedPayload,     \* None or Some(bytes)
    prevIncomingSequenceNumber,
    prevIncomingAckNumber,
    ackReceiveTimer,                     \* isRunning of the ack-receive timer
    sequenceNumber,
    prevAckedSequenceNumber,
    queuedOutgoingMatterMessages,        \* sequence of DataReader cursors
    sendInProgress,
    sendAckTimer,                        \* isRunning of the send-ack timer
    isActive,
    sendLoop,          \* position of the processSendQueue run, if any
    ackWrites,         \* send-ack callbacks suspended in writeBleCallback
    written,           \* frames handed to writeBleCallback, in call order
    delivered,         \* arguments of handleMatterMessagePayload, in call order
    disconnects,       \* number of disconnectBleCallback invocations
    accepted,          \* inbound frames handleIncomingBleData ran through without error
    lastCall,          \* the entry point that ran last, its input and its outcome
    handshake,         \* the createFromHandshakeRequest call that makes the session, if any
    codec              \* the call of BtpCodec that ran last outside a session, if any

vars == << fragmentSize, clientWindowSize, currentIncomingSegmentedMsgLength,
           currentIncomingSegmentedPayload, prevIncomingSequenceNumber,
           prevIncomingAckNumber, ackReceiveTimer, sequenceNumber,
           prevAckedSequenceNumber, queuedOutgoingMatterMessages, sendInProgress,
           sendAckTimer, isActive, sendLoop, ackWrites, written, delivered,
           disconnects, accepted, lastCall, handshake, codec >>

\* `undefined` and defined values of an optional field
None == << >>
Some(x) == << x >>

\* A call of createFromHandshakeRequest: where it stands ("called", "writing"
\* while it waits for writeBleCallback, "returned", "failed"), its arguments,
\* the handshake response handed to writeBleCallback and the error it failed
\* with.  A session made with the constructor alone has state "none".
Handshake(state, maxDataSize, payload, response, thrown) ==
    [ state                   |-> state,
      maxDataSize             |-> maxDataSize,
      handshakeRequestPayload |-> payload,
      handshakeResponse       |-> response,
      thrown                  |-> thrown ]
NoHandshake == Handshake("none", None, << >>, None, "none")

\* A call of BtpCodec made on its own: the function ("encodeBtpPacket",
\* "decodeBtpPacket", "none" before the first call), the frame handed to
\* encodeBtpPacket, what it produced, and what decodeBtpPacket made of the
\* bytes.
Codec(op, frame, encoded, decoded) ==
    [ op |-> op, frame |-> frame, encoded |-> encoded, decoded |-> decoded ]
NoCodec == Codec("none", None, None, None)

\* a buffer of n zero bytes
Pad(n) == [i \in 1..n |-> 0]


Min(a, b) == IF a < b THEN a ELSE b

\* ------------------------------------------------------------ inbound buffers
\* A received buffer is described by the fields the wire format carries.  The
\* ack number is on the wire exactly when the ack flag is set, the message
\* length exactly when the begin flag is set.  `truncated` marks a buffer that
\* ends before the fields its flag byte announces.
Buffer(hs, mgmt, hasAck, ack, seq, isBegin, isEnd, msgLen, payload, truncated) ==
    [ isHandshakeRequest  |-> hs,
      hasManagementOpcode |-> mgmt,
      hasAckNumber        |-> hasAck,
      ackNumber           |-> IF hasAck THEN Some(ack) ELSE None,
      sequenceNumber      |-> seq,
      isBeginningSegment  |-> isBegin,
      isEndingSegment     |-> isEnd,
      messageLength       |-> IF isBegin THEN Some(msgLen) ELSE None,
      segmentPayload      |-> payload,
      truncated           |-> truncated ]

\* data.length: flags, (management opcode), (ack), sequence number, (message
\* length, 2 bytes), payload
DataLength(data) ==
    IF data.truncated THEN 1
    ELSE 1 + (IF data.hasManagementOpcode THEN 1 ELSE 0)
           + (IF data.hasAckNumber THEN 1 ELSE 0) + 1
           + (IF data.isBeginningSegment THEN 2 ELSE 0)
           + Len(data.segmentPayload)

\* BtpCodec.decodeBtpPacket.  It fails on a buffer that is too short and on a
\* flag byte that announces a management opcode; the continuing flag of the
\* decoded header is the negation of the beginning flag.
DecodeBtpPacket(data) ==
    IF data.truncated \/ data.hasManagementOpcode
    THEN [ ok |-> FALSE ]
    ELSE [ ok |-> TRUE,
           header |-> [ hasAckNumber        |-> data.hasAckNumber,
                        isHandshakeRequest  |-> data.isHandshakeRequest,
                        hasManagementOpcode |-> data.hasManagementOpcode,
                        isEndingSegment     |-> data.isEndingSegment,
                        isBeginningSegment  |-> data.isBeginningSegment,
                        isContinuingSegment |-> ~data.isBeginningSegment ],
           payload |-> [ ackNumber      |-> data.ackNumber,
                         sequenceNumber |-> data.sequenceNumber,
                         messageLength  |-> data.messageLength,
                         segmentPayload |-> data.segmentPayload ] ]

\* ------------------------------------------------- handleIncomingBleData
\* The part of the session the try block of handleIncomingBleData reads and
\* writes, as it stands when the block is entered.
TryEntry ==
    [ thrown                            |-> "none",
      prevIncomingSequenceNumber        |-> prevIncomingSequenceNumber,
      prevIncomingAckNumber             |-> prevIncomingAckNumber,
      ackReceiveTimer                   |-> ackReceiveTimer,
      sendAckTimer                      |-> sendAckTimer,
      currentIncomingSegmentedMsgLength |-> currentIncomingSegmentedMsgLength,
      currentIncomingSegmentedPayload   |-> currentIncomingSegmentedPayload,
      handed                            |-> << >> ]

\* throw new BtpProtocolError(...) / an error of another class
Throw(s, class) == [s EXCEPT !.thrown = class]

\* the sequence number the next inbound frame must carry
ExpectedSequenceNumber(prev) == (prev + 1) % 256

\* the check of a received ack number against the session's counters
\* (InvalidAckNumberRepeat: the variant that lets a repeated ack number pass)
InvalidAckNumberRepeat(ackNumber, prevAck, seqNo) ==
    ackNumber < prevAck \/ ackNumber > seqNo
InvalidAckNumber(ackNumber, prevAck, seqNo) ==
    ackNumber <= prevAck \/ ackNumber > seqNo

\* sequence check, send-ack timer start
\* (SequenceStepUpdateFirst: the variant that stores the number before checking it)
SequenceStepUpdateFirst(s, pkt) ==
    IF pkt.payload.sequenceNumber # ExpectedSequenceNumber(s.prevIncomingSequenceNumber)
    THEN Throw([s EXCEPT !.prevIncomingSequenceNumber = pkt.payload.sequenceNumber],
               "BtpProtocolError")
    ELSE [s EXCEPT !.prevIncomingSequenceNumber = pkt.payload.sequenceNumber,
                   !.sendAckTimer = TRUE]
SequenceStep(s, pkt) ==
    IF pkt.payload.sequenceNumber # ExpectedSequenceNumber(s.prevIncomingSequenceNumber)
    THEN Throw(s, "BtpProtocolError")
    ELSE [s EXCEPT !.prevIncomingSequenceNumber = pkt.payload.sequenceNumber,
                   !.sendAckTimer = TRUE]

\* ack validation, ack-receive timer stop and restart
AckStep(s, pkt) ==
    IF pkt.header.hasAckNumber /\ pkt.payload.ackNumber # None
    THEN LET ackNumber == pkt.payload.ackNumber[1] IN
         IF InvalidAckNumber(ackNumber, s.prevIncomingAckNumber, sequenceNumber)
         THEN Throw(s, "BtpProtocolError")
         ELSE [s EXCEPT !.prevIncomingAckNumber = ackNumber,
                        !.ackReceiveTimer = (ackNumber < sequenceNumber)]
    ELSE s

\* set or add the payload to the current incoming segmented payload
\* (SegmentStepPrepend: the variant with the arguments of ByteArray.concat swapped)
\* (SegmentStepEmptyIsAbsent: the variant that starts no reassembly for a begin
\* frame with an empty payload)
SegmentStepEmptyIsAbsent(s, pkt) ==
    IF pkt.header.isBeginningSegment
    THEN IF s.currentIncomingSegmentedPayload # None
         THEN Throw(s, "BtpProtocolError")
         ELSE IF Len(pkt.payload.segmentPayload) = 0
         THEN s
         ELSE [s EXCEPT !.currentIncomingSegmentedMsgLength = pkt.payload.messageLength,
                        !.currentIncomingSegmentedPayload = Some(pkt.payload.segmentPayload)]
    ELSE IF pkt.header.isContinuingSegment \/ pkt.header.isEndingSegment
    THEN IF s.currentIncomingSegmentedPayload = None
         THEN Throw(s, "BtpProtocolError")
         ELSE IF Len(pkt.payload.segmentPayload) = 0
         THEN Throw(s, "BtpProtocolError")
         ELSE [s EXCEPT !.currentIncomingSegmentedPayload =
                   Some(s.currentIncomingSegmentedPayload[1] \o pkt.payload.segmentPayload)]
    ELSE s
SegmentStepPrepend(s, pkt) ==
    IF pkt.header.isBeginningSegment
    THEN IF s.currentIncomingSegmentedPayload # None
         THEN Throw(s, "BtpProtocolError")
         ELSE [s EXCEPT !.currentIncomingSegmentedMsgLength = pkt.payload.messageLength,
                        !.currentIncomingSegmentedPayload = Some(pkt.payload.segmentPayload)]
    ELSE IF pkt.header.isContinuingSegment \/ pkt.header.isEndingSegment
    THEN IF s.currentIncomingSegmentedPayload = None
         THEN Throw(s, "BtpProtocolError")
         ELSE IF Len(pkt.payload.segmentPayload) = 0
         THEN Throw(s, "BtpProtocolError")
         ELSE [s EXCEPT !.currentIncomingSegmentedPayload =
                   Some(pkt.payload.segmentPayload \o s.currentIncomingSegmentedPayload[1])]
    ELSE s
SegmentStep(s, pkt) ==
    IF pkt.header.isBeginningSegment
    THEN IF s.currentIncomingSegmentedPayload # None
         THEN Throw(s, "BtpProtocolError")
         ELSE [s EXCEPT !.currentIncomingSegmentedMsgLength = pkt.payload.messageLength,
                        !.currentIncomingSegmentedPayload = Some(pkt.payload.segmentPayload)]
    ELSE IF pkt.header.isContinuingSegment \/ pkt.header.isEndingSegment
    THEN IF s.currentIncomingSegmentedPayload = None
         THEN Throw(s, "BtpProtocolError")
         ELSE IF Len(pkt.payload.segmentPayload) = 0
         THEN Throw(s, "BtpProtocolError")
         ELSE [s EXCEPT !.currentIncomingSegmentedPayload =
                   Some(s.currentIncomingSegmentedPayload[1] \o pkt.payload.segmentPayload)]
    ELSE s

\* the ending segment: length check, hand-over, reset
\* (EndingStepAnyLength: the variant without the length check)
EndingStepAnyLength(s, pkt) ==
    IF pkt.header.isEndingSegment
    THEN IF s.currentIncomingSegmentedMsgLength = None \/ s.currentIncomingSegmentedPayload = None
         THEN Throw(s, "BtpProtocolError")
         ELSE [s EXCEPT !.currentIncomingSegmentedMsgLength = None,
                        !.currentIncomingSegmentedPayload = None,
                        !.handed = << s.currentIncomingSegmentedPayload[1] >>]
    ELSE s
EndingStep(s, pkt) ==
    IF pkt.header.isEndingSegment
    THEN IF s.currentIncomingSegmentedMsgLength = None \/ s.currentIncomingSegmentedPayload = None
         THEN Throw(s, "BtpProtocolError")
         ELSE IF Len(s.currentIncomingSegmentedPayload[1]) # s.currentIncomingSegmentedMsgLength[1]
         THEN Throw(s, "BtpProtocolError")
         ELSE [s EXCEPT !.currentIncomingSegmentedMsgLength = None,
                        !.currentIncomingSegmentedPayload = None,
                        !.handed = << s.currentIncomingSegmentedPayload[1] >>]
    ELSE s

\* a frame flagged as handshake request or as carrying a management opcode
\* (UnexpectedControlFrameOpcodeOnly: the variant that tests one flag only)
UnexpectedControlFrameOpcodeOnly(header) == header.hasManagementOpcode
UnexpectedControlFrame(header) == header.isHandshakeRequest \/ header.hasManagementOpcode

\* a frame with neither payload nor ack
EmptyFrame(pkt) == Len(pkt.payload.segmentPayload) = 0 /\ ~pkt.header.hasAckNumber

\* the size test of lines 196-198: more than fragmentSize + 3 bytes; first
\* the test without the tolerance of 3 bytes
OversizedStrict(length, maxLength) == length > maxLength
Oversized(length, maxLength) == length > maxLength /\ length > maxLength + 3

\* The try block.  `codecError` is the class of the error decodeBtpPacket
\* raises when it fails.
TryBlock(data, codecError) ==
    IF Oversized(DataLength(data), fragmentSize)
    THEN Throw(TryEntry, "BtpProtocolError")
    ELSE LET pkt == DecodeBtpPacket(data) IN
    IF ~pkt.ok
    THEN Throw(TryEntry, codecError)
    ELSE IF UnexpectedControlFrame(pkt.header)
    THEN Throw(TryEntry, "BtpProtocolError")
    ELSE IF EmptyFrame(pkt)
    THEN Throw(TryEntry, "BtpProtocolError")
    ELSE LET s1 == SequenceStep(TryEntry, pkt) IN
    IF s1.thrown # "none" THEN s1
    ELSE LET s2 == AckStep(s1, pkt) IN
    IF s2.thrown # "none" THEN s2
    ELSE LET s3 == SegmentStep(s2, pkt) IN
    IF s3.thrown # "none" THEN s3
    ELSE EndingStep(s3, pkt)

\* ------------------------------------------------------------------ close()
\* isActive and the number of disconnectBleCallback invocations after close()
\* has run on a session with the given values.  The callback may call close()
\* again before it returns (`reenter` nested calls).
\* (CloseAlways: the variant without the isActive guard)
RECURSIVE CloseAlways(_, _, _)
CloseAlways(active, count, reenter) ==
    IF reenter > 0 THEN CloseAlways(FALSE, count + 1, reenter - 1)
    ELSE [ isActive |-> FALSE, disconnects |-> count + 1 ]
RECURSIVE Close(_, _, _)
Close(active, count, reenter) ==
    IF active
    THEN IF reenter > 0 THEN Close(FALSE, count + 1, reenter - 1)
         ELSE [ isActive |-> FALSE, disconnects |-> count + 1 ]
    ELSE [ isActive |-> FALSE, disconnects |-> count ]

\* close() as a step: both timers stopped, then the guarded part
CloseSession(reenter) ==
    LET c == Close(isActive, disconnects, reenter) IN
    /\ ackReceiveTimer' = FALSE
    /\ sendAckTimer' = FALSE
    /\ isActive' = c.isActive
    /\ disconnects' = c.disconnects

\* the catch block's decision to rethrow
\* (RethrowAll: the variant that rethrows every error)
RethrowAll(thrown) == thrown # "none"
Rethrow(thrown) == thrown # "none" /\ thrown # "BtpProtocolError"

\* What an entry point leaves in lastCall: its name, the class of the error
\* raised inside it ("none" when there was none), whether the call ended by
\* raising it to the caller, and, for handleIncomingBleData, the protocol
\* rules the buffer broke (see BrokenRules).
Call(op, thrown, raised, rules) ==
    [ op |-> op, thrown |-> thrown, raised |-> raised, rules |-> rules ]

\* The protocol rules a received buffer breaks in the current state, stated
\* on the buffer and the session's counters: the observation the properties
\* of the inbound path are stated on.
BrokenRules(data) ==
    LET inProgress == currentIncomingSegmentedPayload # None
        total == (IF data.isBeginningSegment \/ ~inProgress THEN 0
                  ELSE Len(currentIncomingSegmentedPayload[1]))
                 + Len(data.segmentPayload)
        announced == IF data.isBeginningSegment THEN data.messageLength
                     ELSE currentIncomingSegmentedMsgLength
    IN  (IF DataLength(data) > fragmentSize + 3 THEN { "oversized" } ELSE { })
   \cup (IF data.truncated THEN { "undecodable" } ELSE { })
   \cup (IF data.isHandshakeRequest \/ data.hasManagementOpcode THEN { "control" } ELSE { })
   \cup (IF Len(data.segmentPayload) = 0 /\ ~data.hasAckNumber THEN { "empty" } ELSE { })
   \cup (IF data.sequenceNumber # (prevIncomingSequenceNumber + 1) % 256
         THEN { "gap" } ELSE { })
   \cup (IF data.hasAckNumber /\ ~( prevIncomingAckNumber < data.ackNumber[1]
                                    /\ data.ackNumber[1] <= sequenceNumber )
         THEN { "ack" } ELSE { })
   \cup (IF \/ data.isBeginningSegment /\ inProgress
            \/ ~data.isBeginningSegment /\ (~inProgress \/ Len(data.segmentPayload) = 0)
            \/ data.isEndingSegment /\ announced # Some(total)
         THEN { "reassembly" } ELSE { })

\* what the log of accepted frames keeps of a frame
Segment(data) ==
    [ ackNumber          |-> data.ackNumber,
      sequenceNumber     |-> data.sequenceNumber,
      isBeginningSegment |-> data.isBeginningSegment,
      isEndingSegment    |-> data.isEndingSegment,
      messageLength      |-> data.messageLength,
      segmentPayload     |-> data.segmentPayload ]

\* handleIncomingBleData(data)
HandleIncomingBleData(data, codecError, reenter) ==
    LET s == TryBlock(data, codecError) IN
    /\ prevIncomingSequenceNumber' = s.prevIncomingSequenceNumber
    /\ prevIncomingAckNumber' = s.prevIncomingAckNumber
    /\ currentIncomingSegmentedMsgLength' = s.currentIncomingSegmentedMsgLength
    /\ currentIncomingSegmentedPayload' = s.currentIncomingSegmentedPayload
    /\ delivered' = delivered \o s.handed
    /\ IF s.thrown = "none"
       THEN /\ ackReceiveTimer' = s.ackReceiveTimer
            /\ sendAckTimer' = s.sendAckTimer
            /\ accepted' = Append(accepted, Segment(data))
            /\ UNCHANGED << isActive, disconnects >>
       ELSE /\ CloseSession(reenter)
            /\ UNCHANGED accepted
    /\ lastCall' = Call("handleIncomingBleData", s.thrown, Rethrow(s.thrown), BrokenRules(data))
    /\ UNCHANGED << codec, handshake, fragmentSize, clientWindowSize,
                    sequenceNumber, prevAckedSequenceNumber,
                    queuedOutgoingMatterMessages, sendInProgress, sendLoop, ackWrites,
                    written >>

\* close() called by the owner of the session
CloseCall(reenter) ==
    /\ CloseSession(reenter)
    /\ lastCall' = Call("close", "none", FALSE, { })
    /\ UNCHANGED << codec, handshake, fragmentSize, clientWindowSize,
                    currentIncomingSegmentedMsgLength,
                    currentIncomingSegmentedPayload, prevIncomingSequenceNumber,
                    prevIncomingAckNumber, sequenceNumber, prevAckedSequenceNumber,
                    queuedOutgoingMatterMessages, sendInProgress, sendLoop, ackWrites,
                    written, delivered, accepted >>

\* ------------------------------------------------------------ outbound path
\* getNextSequenceNumber()
GetNextSequenceNumberSkip(seqNo) == IF seqNo + 2 > 255 THEN 0 ELSE seqNo + 2
\* (GetNextSequenceNumberLate: the variant that wraps one step late)
GetNextSequenceNumberLate(seqNo) == IF seqNo + 1 > 256 THEN 0 ELSE seqNo + 1
GetNextSequenceNumber(seqNo) == IF seqNo + 1 > 255 THEN 0 ELSE seqNo + 1

\* new DataReader(data, Endian.Little) and the three methods used on it
DataReader(data) == [ buffer |-> data, offset |-> 0 ]
GetLength(reader) == Len(reader.buffer)
GetRemainingBytesCount(reader) == Len(reader.buffer) - reader.offset
ReadByteArray(reader, length) ==
    LET end == Min(reader.offset + length, Len(reader.buffer)) IN
    [ bytes  |-> SubSeq(reader.buffer, reader.offset + 1, end),
      reader |-> [reader EXCEPT !.offset = end] ]

\* the window test of processSendQueue: TRUE when sending has to stop
WindowFull(seqNo, prevAck, windowSize) == seqNo - prevAck > windowSize - 1

\* checks if last ack number sent < ack number to be sent
\* (AckOwedAlways: the variant that always finds an ack owed)
AckOwedAlways(prevIncomingSeq, prevAcked) == TRUE
AckOwed(prevIncomingSeq, prevAcked) == prevIncomingSeq > prevAcked

\* if (hasAckNumber): the sequence number recorded as acknowledged
\* (AcknowledgeExpected: the variant that records the next expected one)
AcknowledgeExpected(hasAckNumber, prevIncomingSeq, prevAcked) ==
    IF hasAckNumber THEN (prevIncomingSeq + 1) % 256 ELSE prevAcked
Acknowledge(hasAckNumber, prevIncomingSeq, prevAcked) ==
    IF hasAckNumber THEN prevIncomingSeq ELSE prevAcked

\* the loop pass with a header length that leaves out the ack byte
SendIterationShortHeader(queue, prevAcked, ackTimer, seqNo) ==
    LET currentProcessedMessage == queue[1]
        remainingMessageLength == GetRemainingBytesCount(currentProcessedMessage)
        hasAckNumber == AckOwed(prevIncomingSequenceNumber, prevAcked)
        isBeginningSegment == remainingMessageLength = GetLength(currentProcessedMessage)
        btpHeaderLength == 2 + (IF isBeginningSegment THEN 2 ELSE 0)
        isEndingSegment == remainingMessageLength <= fragmentSize - btpHeaderLength
        read == ReadByteArray(currentProcessedMessage, fragmentSize - btpHeaderLength)
        next == GetNextSequenceNumber(seqNo)
    IN [ packet |->
           [ hasAckNumber        |-> hasAckNumber,
             isBeginningSegment  |-> isBeginningSegment,
             isContinuingSegment |-> ~isBeginningSegment,
             isEndingSegment     |-> isEndingSegment,
             ackNumber           |-> IF hasAckNumber THEN Some(prevIncomingSequenceNumber) ELSE None,
             sequenceNumber      |-> next,
             messageLength       |-> IF isBeginningSegment THEN Some(remainingMessageLength) ELSE None,
             segmentPayload      |-> read.bytes ],
         queue |-> [queue EXCEPT ![1] = read.reader],
         prevAckedSequenceNumber |->
             Acknowledge(hasAckNumber, prevIncomingSequenceNumber, prevAcked),
         sendAckTimer |-> IF hasAckNumber THEN FALSE ELSE ackTimer,
         sequenceNumber |-> next,
         isEndingSegment |-> isEndingSegment ]

\* One pass of the while loop of processSendQueue up to the call of
\* writeBleCallback, on the given queue and counters: the frame it builds and
\* the values it leaves.
SendIteration(queue, prevAcked, ackTimer, seqNo) ==
    LET currentProcessedMessage == queue[1]
        remainingMessageLength == GetRemainingBytesCount(currentProcessedMessage)
        hasAckNumber == AckOwed(prevIncomingSequenceNumber, prevAcked)
        isBeginningSegment == remainingMessageLength = GetLength(currentProcessedMessage)
        btpHeaderLength == 2 + (IF isBeginningSegment THEN 2 ELSE 0)
                             + (IF hasAckNumber THEN 1 ELSE 0)
        isEndingSegment == remainingMessageLength <= fragmentSize - btpHeaderLength
        read == ReadByteArray(currentProcessedMessage, fragmentSize - btpHeaderLength)
        next == GetNextSequenceNumber(seqNo)
    IN [ packet |->
           [ hasAckNumber        |-> hasAckNumber,
             isBeginningSegment  |-> isBeginningSegment,
             isContinuingSegment |-> ~isBeginningSegment,
             isEndingSegment     |-> isEndingSegment,
             ackNumber           |-> IF hasAckNumber THEN Some(prevIncomingSequenceNumber) ELSE None,
             sequenceNumber      |-> next,
             messageLength       |-> IF isBeginningSegment THEN Some(remainingMessageLength) ELSE None,
             segmentPayload      |-> read.bytes ],
         queue |-> [queue EXCEPT ![1] = read.reader],
         prevAckedSequenceNumber |->
             Acknowledge(hasAckNumber, prevIncomingSequenceNumber, prevAcked),
         sendAckTimer |-> IF hasAckNumber THEN FALSE ELSE ackTimer,
         sequenceNumber |-> next,
         isEndingSegment |-> isEndingSegment ]

Idle == [ state |-> "idle", isEndingSegment |-> FALSE ]

\* the loop runs one pass and suspends in writeBleCallback
RunIteration(queue) ==
    LET it == SendIteration(queue, prevAckedSequenceNumber, sendAckTimer, sequenceNumber) IN
    /\ queuedOutgoingMatterMessages' = it.queue
    /\ prevAckedSequenceNumber' = it.prevAckedSequenceNumber
    /\ sendAckTimer' = it.sendAckTimer
    /\ sequenceNumber' = it.sequenceNumber
    /\ written' = Append(written, it.packet)
    /\ sendInProgress' = TRUE
    /\ sendLoop' = [ state |-> "writing", isEndingSegment |-> it.isEndingSegment ]

\* queuedOutgoingMatterMessages.push(dataReader)
\* (EnqueueFirst: the variant that puts the message in front)
EnqueueFirst(queue, reader) == << reader >> \o queue
Enqueue(queue, reader) == Append(queue, reader)

\* if (data.length === 0): the message sendMatterMessage refuses
EmptyMessageNever(data) == FALSE
EmptyMessage(data) == Len(data) = 0

\* sendMatterMessage(data), up to the first suspension of processSendQueue
SendMatterMessage(data) ==
    /\ IF EmptyMessage(data)
       THEN /\ lastCall' = Call("sendMatterMessage", "BtpFlowError", TRUE, { })
            /\ UNCHANGED << queuedOutgoingMatterMessages, prevAckedSequenceNumber,
                            sendAckTimer, sequenceNumber, written, sendInProgress, sendLoop >>
       ELSE LET queue == Enqueue(queuedOutgoingMatterMessages, DataReader(data)) IN
            /\ lastCall' = Call("sendMatterMessage", "none", FALSE, { })
            /\ IF \/ sendInProgress
                  \/ WindowFull(sequenceNumber, prevIncomingAckNumber, clientWindowSize)
                  \/ Len(queue) = 0
               THEN /\ queuedOutgoingMatterMessages' = queue
                    /\ UNCHANGED << prevAckedSequenceNumber, sendAckTimer, sequenceNumber,
                                    written, sendInProgress, sendLoop >>
               ELSE RunIteration(queue)
    /\ UNCHANGED << codec, handshake, fragmentSize, clientWindowSize,
                    currentIncomingSegmentedMsgLength,
                    currentIncomingSegmentedPayload, prevIncomingSequenceNumber,
                    prevIncomingAckNumber, ackReceiveTimer, isActive, ackWrites, delivered,
                    disconnects, accepted >>

\* the write processSendQueue waits for completes (ok) or fails
WriteBleDone(ok) ==
    /\ sendLoop.state = "writing"
    /\ IF ~ok
       THEN \* the rejection leaves processSendQueue at the await
            /\ sendLoop' = [ state |-> "failed", isEndingSegment |-> FALSE ]
            /\ lastCall' = Call("processSendQueue", "Error", TRUE, { })
            /\ UNCHANGED << ackReceiveTimer, queuedOutgoingMatterMessages,
                            prevAckedSequenceNumber, sendAckTimer, sequenceNumber,
                            written, sendInProgress >>
       ELSE LET queue == IF sendLoop.isEndingSegment
                         THEN Tail(queuedOutgoingMatterMessages)
                         ELSE queuedOutgoingMatterMessages IN
            /\ ackReceiveTimer' = TRUE
            /\ lastCall' = Call("processSendQueue", "none", FALSE, { })
            /\ IF \/ WindowFull(sequenceNumber, prevIncomingAckNumber, clientWindowSize)
                  \/ Len(queue) = 0
               THEN /\ queuedOutgoingMatterMessages' = queue
                    /\ sendInProgress' = FALSE
                    /\ sendLoop' = Idle
                    /\ UNCHANGED << prevAckedSequenceNumber, sendAckTimer, sequenceNumber,
                                    written >>
               ELSE RunIteration(queue)
    /\ UNCHANGED << codec, handshake, fragmentSize, clientWindowSize,
                    currentIncomingSegmentedMsgLength,
                    currentIncomingSegmentedPayload, prevIncomingSequenceNumber,
                    prevIncomingAckNumber, isActive, ackWrites, delivered, disconnects,
                    accepted >>

\* ------------------------------------------------------------------- timers
\* the send-ack timer fires: btpSendAckTimeoutTriggered up to its await
SendAckTimeoutTriggered ==
    /\ sendAckTimer
    /\ sendAckTimer' = FALSE
    /\ IF AckOwed(prevIncomingSequenceNumber, prevAckedSequenceNumber)
       THEN LET next == GetNextSequenceNumber(sequenceNumber) IN
            /\ sequenceNumber' = next
            /\ prevAckedSequenceNumber' = prevIncomingSequenceNumber
            /\ written' = Append(written,
                   [ hasAckNumber        |-> TRUE,
                     isBeginningSegment  |-> FALSE,
                     isContinuingSegment |-> FALSE,
                     isEndingSegment     |-> FALSE,
                     ackNumber           |-> Some(prevIncomingSequenceNumber),
                     sequenceNumber      |-> next,
                     messageLength       |-> None,
                     segmentPayload      |-> << >> ])
            /\ ackWrites' = ackWrites + 1
       ELSE UNCHANGED << sequenceNumber, prevAckedSequenceNumber, written, ackWrites >>
    /\ lastCall' = Call("btpSendAckTimeoutTriggered", "none", FALSE, { })
    /\ UNCHANGED << codec, handshake, fragmentSize, clientWindowSize,
                    currentIncomingSegmentedMsgLength,
                    currentIncomingSegmentedPayload, prevIncomingSequenceNumber,
                    prevIncomingAckNumber, ackReceiveTimer, queuedOutgoingMatterMessages,
                    sendInProgress, isActive, sendLoop, delivered, disconnects, accepted >>

\* the write of a standalone ack completes (ok) or fails
AckWriteDone(ok) ==
    /\ ackWrites > 0
    /\ ackWrites' = ackWrites - 1
    /\ ackReceiveTimer' = IF ok THEN TRUE ELSE ackReceiveTimer
    /\ lastCall' = Call("btpSendAckTimeoutTriggered",
                        IF ok THEN "none" ELSE "Error", ~ok, { })
    /\ UNCHANGED << codec, handshake, fragmentSize, clientWindowSize,
                    currentIncomingSegmentedMsgLength,
                    currentIncomingSegmentedPayload, prevIncomingSequenceNumber,
                    prevIncomingAckNumber, sequenceNumber, prevAckedSequenceNumber,
                    queuedOutgoingMatterMessages, sendInProgress, sendAckTimer, isActive,
                    sendLoop, written, delivered, disconnects, accepted >>

\* the test of btpAckTimeoutTriggered: the peer still owes an ack
AckNotReceivedAbove(prevAck, seqNo) == prevAck > seqNo
AckNotReceived(prevAck, seqNo) == prevAck # seqNo

\* the ack-receive timer fires: btpAckTimeoutTriggered
AckTimeoutTriggered(reenter) ==
    /\ ackReceiveTimer
    /\ IF AckNotReceived(prevIncomingAckNumber, sequenceNumber)
       THEN /\ CloseSession(reenter)
            /\ lastCall' = Call("btpAckTimeoutTriggered", "BtpProtocolError", TRUE, { })
       ELSE /\ ackReceiveTimer' = FALSE
            /\ lastCall' = Call("btpAckTimeoutTriggered", "none", FALSE, { })
            /\ UNCHANGED << sendAckTimer, isActive, disconnects >>
    /\ UNCHANGED << codec, handshake, fragmentSize, clientWindowSize,
                    currentIncomingSegmentedMsgLength,
                    currentIncomingSegmentedPayload, prevIncomingSequenceNumber,
                    prevIncomingAckNumber, sequenceNumber, prevAckedSequenceNumber,
                    queuedOutgoingMatterMessages, sendInProgress, sendLoop, ackWrites,
                    written, delivered, accepted >>

\* ------------------------------------------------------- inputs explored
\* fragment sizes and window sizes the handshake can negotiate
FragmentSizes == { MINIMUM_ATT_MTU - 3 }
WindowSizes == { 2, 3 }

Bytes(n) == [i \in 1..n |-> i]

\* messages handed to sendMatterMessage: empty, one segment, two segments
SendMessages == { << >>, Bytes(2), Bytes(fragmentSize) }

\* The buffers the peer may send in the current state: data frames with the
\* expected sequence number, with or without an ack, of every segment kind
\* (begin and end flags, announced length) and payload; frames with another
\* sequence number; a frame flagged as handshake request; a frame flagged as
\* carrying a management opcode; a buffer cut short; a buffer of more than
\* fragmentSize + 3 bytes.
AckChoices(maxAck) == { << FALSE, 0 >> } \cup { << TRUE, a >> : a \in 0..maxAck }
DataBuffers(maxAck, segments) ==
    { Buffer(FALSE, FALSE, b[1][1], b[1][2], (prevIncomingSequenceNumber + 1) % 256,
             b[2][1], b[2][2], b[2][3], b[2][4], FALSE) :
        b \in AckChoices(maxAck) \X segments }
OtherBuffers ==
    LET seq == (prevIncomingSequenceNumber + 1) % 256
        gap == (prevIncomingSequenceNumber + 2) % 256 IN
    { Buffer(FALSE, FALSE, FALSE, 0, gap, TRUE, TRUE, 1, << 1 >>, FALSE),
      Buffer(FALSE, FALSE, TRUE, 0, prevIncomingSequenceNumber, FALSE, TRUE, 0, << 1 >>, FALSE),
      Buffer(TRUE, FALSE, FALSE, 0, seq, TRUE, TRUE, 1, << 1 >>, FALSE),
      Buffer(FALSE, TRUE, FALSE, 0, seq, TRUE, TRUE, 1, << 1 >>, FALSE),
      Buffer(FALSE, FALSE, FALSE, 0, seq, TRUE, TRUE, 1, << 1 >>, TRUE),
      Buffer(FALSE, FALSE, FALSE, 0, seq, FALSE, FALSE, 0, Pad(fragmentSize + 2), FALSE) }

\* segments (begin flag, end flag, announced length, payload) offered to the
\* whole session: a one-segment message, a first segment of two, a last
\* segment, a frame without flags and payload
SessionSegments ==
    { << TRUE, TRUE, 1, << 1 >> >>, << TRUE, FALSE, 2, << 1 >> >>,
      << FALSE, TRUE, 0, << 2 >> >>, << FALSE, FALSE, 0, << >> >> }
\* buffers offered to the whole session: every segment kind without an ack or
\* acking frame 0, a one-segment message and a stand-alone ack with every ack
\* number up to MaxPeerAck, and the invalid buffers
InBuffers ==
    DataBuffers(0, SessionSegments)
    \cup DataBuffers(MaxPeerAck, { << TRUE, TRUE, 1, << 1 >> >>,
                                   << FALSE, FALSE, 0, << >> >> })
    \cup OtherBuffers

\* what is still offered once the session is closed: a one-segment message
\* with or without an ack, and the invalid buffers
ClosedBuffers == DataBuffers(0, { << TRUE, TRUE, 1, << 1 >> >> }) \cup OtherBuffers
\* the message still handed to sendMatterMessage once the session is closed
ClosedMessages == { Bytes(2) }

\* segments offered to the inbound path alone: every combination of flags,
\* announced length and payload
ReassemblySegments ==
    ( { << FALSE, e, 0 >> : e \in BOOLEAN }
      \cup { << TRUE, e[1], e[2] >> : e \in BOOLEAN \X (1..MaxMessageLength) } )
    \X { << >>, << 1 >>, << 2 >> }
ReassemblyBuffers ==
    DataBuffers(0, { << c[1][1], c[1][2], c[1][3], c[2] >> : c \in ReassemblySegments })
    \cup OtherBuffers

\* the classes of error decodeBtpPacket may raise
CodecErrors == { "BtpProtocolError", "Error" }

\* how deep disconnectBleCallback re-enters close()
Reentries == { 0, 1 }

\* ---------------------------------------------------------- specification
\* the session as the constructor leaves it
Init ==
    /\ fragmentSize \in FragmentSizes
    /\ clientWindowSize \in WindowSizes
    /\ currentIncomingSegmentedMsgLength = None
    /\ currentIncomingSegmentedPayload = None
    /\ prevIncomingSequenceNumber = 255
    /\ prevIncomingAckNumber = -1
    /\ ackReceiveTimer = TRUE
    /\ sequenceNumber = 0
    /\ prevAckedSequenceNumber = -1
    /\ queuedOutgoingMatterMessages = << >>
    /\ sendInProgress = FALSE
    /\ sendAckTimer = FALSE
    /\ isActive = TRUE
    /\ sendLoop = Idle
    /\ ackWrites = 0
    /\ written = << >>
    /\ delivered = << >>
    /\ disconnects = 0
    /\ accepted = << >>
    /\ lastCall = Call("constructor", "none", FALSE, { })
    /\ handshake = NoHandshake
    /\ codec = NoCodec

\* the peer sends one of `buffers`
Receive(buffers) ==
    \E data \in buffers :
       \E e \in (IF DecodeBtpPacket(data).ok THEN { "BtpProtocolError" } ELSE CodecErrors),
          r \in Reentries :
          HandleIncomingBleData(data, e, r)

\* the whole session: every entry point and both timers
Next ==
    \/ /\ (prevIncomingSequenceNumber + 1) % 256 < MaxInbound
       /\ Receive(IF isActive THEN InBuffers ELSE ClosedBuffers)
    \/ /\ sequenceNumber + Len(queuedOutgoingMatterMessages) < MaxOutbound
       /\ \E data \in (IF isActive THEN SendMessages ELSE ClosedMessages) :
             SendMatterMessage(data)
    \/ \E ok \in BOOLEAN : WriteBleDone(ok)
    \/ SendAckTimeoutTriggered
    \/ \E ok \in BOOLEAN : AckWriteDone(ok)
    \/ \E r \in Reentries : AckTimeoutTriggered(r)
    \/ \E r \in Reentries : CloseCall(r)

Spec == Init /\ [][Next]_vars

\* the inbound path alone: the peer sends while the link is up, the owner may
\* close
NextInbound ==
    \/ /\ isActive
       /\ (prevIncomingSequenceNumber + 1) % 256 < MaxSegments
       /\ Receive(ReassemblyBuffers)
    \/ \E r \in Reentries : CloseCall(r)

SpecInbound == Init /\ [][NextInbound]_vars

\* ================================================================ properties
Inbound == lastCall.op = "handleIncomingBleData"

\* The log of accepted frames carries consecutive sequence numbers from 0.
Consecutive(log) == \A i \in 1..Len(log) : log[i].sequenceNumber = (i - 1) % 256

\* The log is a sequence of messages (begin, any number of middle segments,
\* end), the last one possibly incomplete, and each completed message has the
\* length its begin frame announced.
RECURSIVE WellFormedFrom(_, _, _, _)
WellFormedFrom(log, i, open, gathered) ==
    IF i > Len(log) THEN TRUE
    ELSE LET f == log[i]
             length == (IF f.isBeginningSegment THEN 0 ELSE gathered[2])
                       + Len(f.segmentPayload)
             announced == IF f.isBeginningSegment THEN f.messageLength[1] ELSE gathered[1]
         IN /\ f.isBeginningSegment <=> ~open
            /\ f.isEndingSegment => length = announced
            /\ WellFormedFrom(log, i + 1, ~f.isEndingSegment, << announced, length >>)
WellFormed(log) == WellFormedFrom(log, 1, FALSE, << 0, 0 >>)

\* The messages the log completes, each the concatenation of its segments'
\* payloads in arrival order.
RECURSIVE MessagesFrom(_, _, _)
MessagesFrom(log, i, gathered) ==
    IF i > Len(log) THEN << >>
    ELSE LET f == log[i]
             bytes == IF f.isBeginningSegment THEN f.segmentPayload
                      ELSE gathered \o f.segmentPayload
         IN IF f.isEndingSegment
            THEN << bytes >> \o MessagesFrom(log, i + 1, << >>)
            ELSE MessagesFrom(log, i + 1, bytes)
Messages(log) == MessagesFrom(log, 1, << >>)

\* C1: when the accepted frames carry consecutive sequence numbers and form
\* well-formed messages, handleMatterMessagePayload has been called exactly
\* once per completed message, in completion order, each time with the
\* concatenation of the message's segment payloads in arrival order.
C1_DeliveryMatchesSegments ==
    Consecutive(accepted) /\ WellFormed(accepted) => delivered = Messages(accepted)

\* a three-segment message (with a middle segment that is neither begin nor
\* end) followed by a one-segment message, both delivered
C1_Witness ==
    /\ Len(accepted) = 4
    /\ accepted[1].isBeginningSegment /\ ~accepted[1].isEndingSegment
    /\ ~accepted[2].isBeginningSegment /\ ~accepted[2].isEndingSegment
    /\ ~accepted[3].isBeginningSegment /\ accepted[3].isEndingSegment
    /\ accepted[4].isBeginningSegment /\ accepted[4].isEndingSegment
    /\ delivered = << << 1, 2, 1 >>, << 2 >> >>

\* C2: a frame whose sequence number is not (prevIncomingSequenceNumber + 1)
\* mod 256 ends in an error, closes the session (disconnectBle has been
\* invoked) and leaves prevIncomingSequenceNumber as it was; a frame that is
\* accepted carries that number and prevIncomingSequenceNumber becomes it; the
\* first accepted frame carries 0, the number after 255.
C2_SequenceCheck ==
    [][ lastCall'.op = "handleIncomingBleData" =>
          /\ "gap" \in lastCall'.rules =>
                /\ lastCall'.thrown = "BtpProtocolError"
                /\ ~isActive' /\ disconnects' = 1
                /\ prevIncomingSequenceNumber' = prevIncomingSequenceNumber
                /\ accepted' = accepted
          /\ accepted' # accepted =>
                /\ accepted'[Len(accepted')].sequenceNumber
                      = (prevIncomingSequenceNumber + 1) % 256
                /\ prevIncomingSequenceNumber' = accepted'[Len(accepted')].sequenceNumber
                /\ prevIncomingSequenceNumber = 255 =>
                      accepted'[Len(accepted')].sequenceNumber = 0 ]_vars

\* a frame with a wrong sequence number was rejected after frame 0 had been
\* accepted
C2_Witness ==
    /\ Inbound /\ "gap" \in lastCall.rules
    /\ Len(accepted) = 1 /\ accepted[1].sequenceNumber = 0
    /\ prevIncomingSequenceNumber = 0 /\ ~isActive

\* C3 (as claimed): on an active session the number of unacknowledged outbound
\* frames, sequenceNumber - prevIncomingAckNumber, is at most windowSize - 1.
C3_WindowInvariant ==
    isActive => sequenceNumber - prevIncomingAckNumber <= clientWindowSize - 1

\* C4 (as claimed): processSendQueue writes a data frame only when, before the
\* write, sequenceNumber - prevIncomingAckNumber is strictly below
\* windowSize - 1.
C4_NoFrameAtWindowLimit ==
    [][ /\ lastCall'.op \in { "sendMatterMessage", "processSendQueue" }
        /\ Len(written') > Len(written)
        => sequenceNumber - prevIncomingAckNumber < clientWindowSize - 1 ]_vars

\* C5: a buffer that breaks a protocol rule (flagged as handshake request or
\* management opcode, empty without ack, sequence gap, invalid ack, reassembly
\* violation, oversized, undecodable) ends handleIncomingBleData in an error
\* with the session terminated: isActive is false, both timers are stopped,
\* disconnectBle has been invoked, and handleMatterMessagePayload was not
\* called for that buffer.
C5_ViolationTerminates ==
    [][ lastCall'.op = "handleIncomingBleData" /\ lastCall'.rules # { } =>
          /\ lastCall'.thrown # "none"
          /\ ~isActive'
          /\ ~ackReceiveTimer' /\ ~sendAckTimer'
          /\ disconnects' = 1
          /\ delivered' = delivered
          /\ accepted' = accepted ]_vars

\* a frame flagged as handshake request reached a session that had accepted a
\* frame and had both timers running, and terminated it
C5_Witness ==
    /\ Inbound /\ lastCall.rules = { "control" }
    /\ Len(accepted) = 1
    /\ ~isActive /\ disconnects = 1 /\ ~ackReceiveTimer /\ ~sendAckTimer

C7_CloseIdempotent ==
    /\ [](disconnects <= 1 /\ (isActive <=> disconnects = 0))
    /\ [][ /\ ~isActive => ~isActive'
           /\ disconnects' # disconnects => isActive /\ ~isActive' ]_vars

\* close() called on a session that a rejected frame had already closed (the
\* frame was counted, none was accepted), with disconnectBle invoked once
C7_Witness ==
    /\ lastCall.op = "close"
    /\ prevIncomingSequenceNumber = 0 /\ accepted = << >>
    /\ ~isActive /\ disconnects = 1

\* C8 (as claimed): once the session is closed, handleIncomingBleData and
\* sendMatterMessage write nothing, deliver nothing and change no counter,
\* reassembly buffer or queue.
C8_NoEffectAfterClose ==
    [][ ~isActive /\ lastCall'.op \in { "handleIncomingBleData", "sendMatterMessage" } =>
          UNCHANGED << written, delivered, prevIncomingSequenceNumber,
                       prevIncomingAckNumber, sequenceNumber, prevAckedSequenceNumber,
                       currentIncomingSegmentedMsgLength, currentIncomingSegmentedPayload,
                       queuedOutgoingMatterMessages >> ]_vars

\* C9 (as claimed): while isActive is false neither timer is running.
C9_TimersReleased ==
    ~isActive => ~ackReceiveTimer /\ ~sendAckTimer

\* C10: a frame whose ack number is not in
\* prevIncomingAckNumber < ackNumber <= sequenceNumber (raw values, the
\* session's outgoing counter) ends in an error and closes the session; an
\* accepted frame that carries an ack has its ack number in that range and
\* prevIncomingAckNumber becomes it.
C10_AckCheck ==
    [][ lastCall'.op = "handleIncomingBleData" =>
          /\ "ack" \in lastCall'.rules =>
                /\ lastCall'.thrown = "BtpProtocolError"
                /\ ~isActive' /\ disconnects' = 1
                /\ accepted' = accepted
          /\ accepted' # accepted /\ accepted'[Len(accepted')].ackNumber # None =>
                LET ackNumber == accepted'[Len(accepted')].ackNumber[1] IN
                /\ prevIncomingAckNumber < ackNumber
                /\ ackNumber <= sequenceNumber
                /\ prevIncomingAckNumber' = ackNumber ]_vars

\* the peer acknowledged frame 0, then frame 1 after it had been sent
C10_Witness ==
    /\ Inbound /\ lastCall.thrown = "none"
    /\ Len(accepted) = 2
    /\ accepted[1].ackNumber = Some(0) /\ accepted[2].ackNumber = Some(1)
    /\ prevIncomingAckNumber = 1 /\ isActive

\* ------------------------------------------------------------ timer fairness
\* Both timers are one-shot timers of the event loop: a timer that stays
\* running expires, and its callback runs.
SpecTimers ==
    /\ Init
    /\ [][Next]_vars
    /\ WF_vars(\E r \in Reentries : AckTimeoutTriggered(r))
    /\ WF_vars(SendAckTimeoutTriggered)

\* C11: when the ack-receive timer expires while prevIncomingAckNumber differs
\* from sequenceNumber the session is closed, disconnectBleCallback has been
\* invoked once and a BtpProtocolError is raised; when it expires with the
\* two equal the session stays as it is and nothing is raised.  Under timer
\* fairness a session whose frames are never acknowledged
\* (prevIncomingAckNumber stays -1) is eventually closed.
C11_AckTimeout ==
    /\ [][ lastCall'.op = "btpAckTimeoutTriggered" =>
             IF prevIncomingAckNumber # sequenceNumber
             THEN /\ ~isActive' /\ disconnects' = 1
                  /\ lastCall'.thrown = "BtpProtocolError" /\ lastCall'.raised
             ELSE /\ isActive' = isActive /\ disconnects' = disconnects
                  /\ ~lastCall'.raised ]_vars
    /\ <>(~isActive \/ prevIncomingAckNumber # -1)

\* the timer expired on an open session whose handshake response and data
\* frame were never acknowledged, and closed it
C11_Witness ==
    /\ lastCall.op = "btpAckTimeoutTriggered" /\ lastCall.raised
    /\ prevIncomingAckNumber = -1 /\ sequenceNumber >= 1
    /\ ~isActive /\ disconnects = 1

\* C12 (as claimed): when the send-ack timer expires on an open session that
\* has accepted a frame, a frame whose ack number is the sequence number of
\* the last accepted frame has been written, at the expiry at the latest.
C12_AckedByExpiry ==
    [][ /\ sendAckTimer /\ ~sendAckTimer'
        /\ lastCall'.op = "btpSendAckTimeoutTriggered"
        /\ isActive /\ accepted # << >>
        => \E i \in 1..Len(written') :
              written'[i].ackNumber = Some(accepted[Len(accepted)].sequenceNumber) ]_vars

\* ------------------------------------------------------- the outbound path
\* frames the session may write, and messages it may have queued, in
\* SpecOutbound
MaxFrames == 3
MaxQueue == 2
\* inbound frames the peer sends in SpecOutbound
MaxPeerFrames == 1

\* the smallest and the largest fragment size, a window that fills after one
\* frame and one that does not
OutboundFragmentSizes == { MINIMUM_ATT_MTU - 3, MAXIMUM_BTP_MTU - 3 }
OutboundWindowSizes == { 2, 5 }

\* messages around the capacities of a frame: one byte; fragmentSize - 4
\* bytes, which fill a first frame without ack and need a second one with
\* ack; 2 * fragmentSize - 6 bytes, which fill two frames without ack and need
\* three with an ack on the first
OutboundMessages ==
    { Bytes(n) : n \in { 1, fragmentSize - 4, 2 * fragmentSize - 6 } }

\* what the peer sends meanwhile: a one-segment message with the expected
\* sequence number, without ack or acknowledging the last frame sent
OutboundPeerBuffers ==
    { Buffer(FALSE, FALSE, a, sequenceNumber, (prevIncomingSequenceNumber + 1) % 256,
             TRUE, TRUE, 1, << 1 >>, FALSE) : a \in BOOLEAN }

InitOutbound ==
    /\ fragmentSize \in OutboundFragmentSizes
    /\ clientWindowSize \in OutboundWindowSizes
    /\ currentIncomingSegmentedMsgLength = None
    /\ currentIncomingSegmentedPayload = None
    /\ prevIncomingSequenceNumber = 255
    /\ prevIncomingAckNumber = -1
    /\ ackReceiveTimer = TRUE
    /\ sequenceNumber = 0
    /\ prevAckedSequenceNumber = -1
    /\ queuedOutgoingMatterMessages = << >>
    /\ sendInProgress = FALSE
    /\ sendAckTimer = FALSE
    /\ isActive = TRUE
    /\ sendLoop = Idle
    /\ ackWrites = 0
    /\ written = << >>
    /\ delivered = << >>
    /\ disconnects = 0
    /\ accepted = << >>
    /\ lastCall = Call("constructor", "none", FALSE, { })
    /\ handshake = NoHandshake
    /\ codec = NoCodec

NextOutbound ==
    \/ /\ sequenceNumber < MaxFrames
       /\ Len(queuedOutgoingMatterMessages) < MaxQueue
       /\ \E data \in OutboundMessages : SendMatterMessage(data)
    \/ /\ sequenceNumber < MaxFrames
       /\ \E ok \in BOOLEAN : WriteBleDone(ok)
    \/ /\ (prevIncomingSequenceNumber + 1) % 256 < MaxPeerFrames
       /\ Receive(OutboundPeerBuffers)
    \/ /\ sequenceNumber < MaxFrames
       /\ SendAckTimeoutTriggered
    \/ \E ok \in BOOLEAN : AckWriteDone(ok)

SpecOutbound == InitOutbound /\ [][NextOutbound]_vars

\* the frame the step hands to writeBleCallback, if it is a data frame of
\* processSendQueue
EmitsDataFrame ==
    /\ Len(written') = Len(written) + 1
    /\ lastCall'.op \in { "sendMatterMessage", "processSendQueue" }

\* C13: every data frame emitted for a message of length L is the next slice
\* of the message: it starts where the previous frame of the message ended
\* (at 0 for the first); it has isBegin exactly when it starts at 0, and then
\* carries messageLength = L; it has isEnd exactly when it ends at L; it
\* carries at least one byte and at most fragmentSize - headerLen bytes with
\* headerLen = 2 + 2 (begin) + 1 (ack), so the encoded frame fits fragmentSize.
C13_Segmentation ==
    [][ EmitsDataFrame =>
          LET f == written'[Len(written')]
              before == IF Len(queuedOutgoingMatterMessages') < Len(queuedOutgoingMatterMessages)
                        THEN 2 ELSE 1
              start == IF before <= Len(queuedOutgoingMatterMessages)
                       THEN queuedOutgoingMatterMessages[before].offset ELSE 0
              message == queuedOutgoingMatterMessages'[1].buffer
              end == queuedOutgoingMatterMessages'[1].offset
              headerLen == 2 + (IF f.isBeginningSegment THEN 2 ELSE 0)
                             + (IF f.hasAckNumber THEN 1 ELSE 0)
          IN /\ f.segmentPayload = SubSeq(message, start + 1, end)
             /\ end = start + Len(f.segmentPayload)
             /\ f.isBeginningSegment <=> start = 0
             /\ f.messageLength = IF start = 0 THEN Some(Len(message)) ELSE None
             /\ f.isEndingSegment <=> end = Len(message)
             /\ Len(f.segmentPayload) >= 1
             /\ Len(f.segmentPayload) <= fragmentSize - headerLen
             /\ f.hasAckNumber <=> f.ackNumber # None ]_vars

\* a message went out in three frames: a first, a middle and a last one
C13_Witness ==
    /\ Len(written) = 3
    /\ written[1].isBeginningSegment /\ ~written[1].isEndingSegment
    /\ ~written[2].isBeginningSegment /\ ~written[2].isEndingSegment
    /\ Len(written[2].segmentPayload) = fragmentSize - 2
    /\ ~written[3].isBeginningSegment /\ written[3].isEndingSegment
    /\ written[1].messageLength = Some(2 * fragmentSize - 6)

\* C14: the k-th frame handed to writeBleCallback carries sequence number
\* k mod 256, whatever the interleaving of processSendQueue passes and
\* send-ack callbacks: the counter is the number of frames written, and
\* getNextSequenceNumber steps it by one modulo 256 over its whole range.
C14_WriteOrder ==
    /\ \A k \in 1..Len(written) : written[k].sequenceNumber = k % 256
    /\ sequenceNumber = Len(written) % 256
    /\ \A n \in 0..255 : GetNextSequenceNumber(n) = (n + 1) % 256

\* a standalone ack was written while processSendQueue was suspended in the
\* write of a data frame
C14_Witness ==
    /\ sendLoop.state = "writing" /\ ackWrites = 1
    /\ Len(written) = 2
    /\ written[1].segmentPayload # << >>
    /\ written[2].segmentPayload = << >> /\ written[2].sequenceNumber = 2

\* ------------------------------------------------ createFromHandshakeRequest
SUPPORTED_BTP_VERSIONS == << 4 >>

\* the nine bytes of a handshake request: flags 0x65, management opcode 0x6c,
\* four bytes of version nibbles, attMtu (little endian), clientWindowSize
HandshakeRequestPayload(flags, versionBytes, attMtu, windowByte) ==
    << flags, 108 >> \o versionBytes \o << attMtu % 256, attMtu \div 256, windowByte >>

\* BtpCodec.decodeBtpHandshakeRequest: the versions are the non-zero nibbles
\* in the order high nibble, low nibble of each byte; the call fails on wrong
\* flags, a wrong opcode or no version
DecodeBtpHandshakeRequest(bytes) ==
    LET nibble(i) == LET b == bytes[2 + (i + 1) \div 2] IN
                     IF i % 2 = 1 THEN b \div 16 ELSE b % 16
        versions == SelectSeq([i \in 1..8 |-> nibble(i)], LAMBDA v : v # 0)
    IN IF Len(bytes) # 9 \/ bytes[1] # 101 \/ bytes[2] # 108 \/ versions = << >>
       THEN [ ok |-> FALSE ]
       ELSE [ ok               |-> TRUE,
              versions         |-> versions,
              attMtu           |-> bytes[7] + 256 * bytes[8],
              clientWindowSize |-> bytes[9] ]

\* BtpCodec.encodeBtpHandshakeResponse: flags, opcode, version, attMtu (little
\* endian), windowSize
EncodeBtpHandshakeResponse(response) ==
    << 101, 108, response.version, response.attMtu % 256,
       (response.attMtu \div 256) % 256, response.windowSize >>

\* SUPPORTED_BTP_VERSIONS.find(version => versions.includes(version)); first
\* the peer's own first choice instead
FindVersionOfPeer(versions) == Some(versions[1])
FindVersion(versions) ==
    LET found == SelectSeq(SUPPORTED_BTP_VERSIONS,
                           LAMBDA v : \E i \in 1..Len(versions) : versions[i] = v)
    IN IF found = << >> THEN None ELSE Some(found[1])

\* let attMtu = MINIMUM_ATT_MTU; if (maxDataSize !== undefined) { ... }: the
\* choice of attMtu, first without the 3 bytes of the GATT PDU header added to
\* maxDataSize, then as the code makes it
NegotiateAttMtuNoHeader(maxDataSize, handshakeMtu) ==
    IF maxDataSize = None THEN MINIMUM_ATT_MTU
    ELSE IF maxDataSize[1] > MINIMUM_ATT_MTU
         THEN IF handshakeMtu <= MINIMUM_ATT_MTU
              THEN Min(maxDataSize[1], MAXIMUM_BTP_MTU)
              ELSE Min(Min(handshakeMtu, maxDataSize[1]), MAXIMUM_BTP_MTU)
         ELSE MINIMUM_ATT_MTU
NegotiateAttMtu(maxDataSize, handshakeMtu) ==
    IF maxDataSize = None THEN MINIMUM_ATT_MTU
    ELSE LET linkMtu == maxDataSize[1] + 3 IN
         IF linkMtu > MINIMUM_ATT_MTU
         THEN IF handshakeMtu <= MINIMUM_ATT_MTU
              THEN Min(linkMtu, MAXIMUM_BTP_MTU)
              ELSE Min(Min(handshakeMtu, linkMtu), MAXIMUM_BTP_MTU)
         ELSE MINIMUM_ATT_MTU

\* Math.min(MAXIMUM_WINDOW_SIZE, clientWindowSize)
NegotiateWindowSize(peerWindowSize) == Min(MAXIMUM_WINDOW_SIZE, peerWindowSize)

\* what createFromHandshakeRequest computes from its arguments; first with a
\* fragment size that forgets the GATT PDU header
NegotiateWholeMtu(maxDataSize, request) ==
    LET attMtu == NegotiateAttMtu(maxDataSize, request.attMtu) IN
    [ version      |-> FindVersion(request.versions),
      attMtu       |-> attMtu,
      fragmentSize |-> attMtu,
      windowSize   |-> NegotiateWindowSize(request.clientWindowSize) ]
Negotiate(maxDataSize, request) ==
    LET attMtu == NegotiateAttMtu(maxDataSize, request.attMtu) IN
    [ version      |-> FindVersion(request.versions),
      attMtu       |-> attMtu,
      fragmentSize |-> attMtu - 3,
      windowSize   |-> NegotiateWindowSize(request.clientWindowSize) ]

\* await writeBleCallback(handshakeResponse): the response is handed to the
\* transport and the call waits; first the call returning without writing
ReturnUnwritten(call, handshakeResponse) == [call EXCEPT !.state = "returned"]
AwaitWrite(call, handshakeResponse) ==
    [call EXCEPT !.state = "writing", !.handshakeResponse = Some(handshakeResponse)]

\* createFromHandshakeRequest up to its await: decode, choose the version,
\* negotiate, construct the session (which starts the ack-receive timer) and
\* hand the response to writeBleCallback
CreateFromHandshakeRequest ==
    /\ handshake.state = "called"
    /\ LET request == DecodeBtpHandshakeRequest(handshake.handshakeRequestPayload)
           chosen == Negotiate(handshake.maxDataSize, request)
       IN IF ~request.ok
          THEN /\ handshake' = [handshake EXCEPT !.state = "failed", !.thrown = "Error"]
               /\ lastCall' = Call("createFromHandshakeRequest", "Error", TRUE, { })
               /\ UNCHANGED << fragmentSize, clientWindowSize, ackReceiveTimer, isActive,
                               disconnects >>
          ELSE IF chosen.version = None
          THEN /\ disconnects' = disconnects + 1
               /\ handshake' = [handshake EXCEPT !.state = "failed",
                                                 !.thrown = "BtpProtocolError"]
               /\ lastCall' = Call("createFromHandshakeRequest", "BtpProtocolError", TRUE, { })
               /\ UNCHANGED << fragmentSize, clientWindowSize, ackReceiveTimer, isActive >>
          ELSE /\ fragmentSize' = chosen.fragmentSize
               /\ clientWindowSize' = chosen.windowSize
               /\ ackReceiveTimer' = TRUE
               /\ isActive' = TRUE
               /\ handshake' =
                     AwaitWrite(handshake,
                                EncodeBtpHandshakeResponse(
                                  [ version    |-> chosen.version[1],
                                    attMtu     |-> chosen.attMtu,
                                    windowSize |-> chosen.windowSize ]))
               /\ lastCall' = Call("createFromHandshakeRequest", "none", FALSE, { })
               /\ UNCHANGED disconnects
    /\ UNCHANGED << currentIncomingSegmentedMsgLength, currentIncomingSegmentedPayload,
                    prevIncomingSequenceNumber, prevIncomingAckNumber, sequenceNumber,
                    prevAckedSequenceNumber, queuedOutgoingMatterMessages, sendInProgress,
                    sendAckTimer, sendLoop, ackWrites, written, delivered, accepted,
                    codec >>

\* the write of the handshake response completes and the session is
\* returned, or fails and the call fails with it
HandshakeWriteDone(ok) ==
    /\ handshake.state = "writing"
    /\ handshake' = IF ok THEN [handshake EXCEPT !.state = "returned"]
                    ELSE [handshake EXCEPT !.state = "failed", !.thrown = "Error"]
    /\ lastCall' = Call("createFromHandshakeRequest", IF ok THEN "none" ELSE "Error", ~ok, { })
    /\ UNCHANGED << fragmentSize, clientWindowSize, currentIncomingSegmentedMsgLength,
                    currentIncomingSegmentedPayload, prevIncomingSequenceNumber,
                    prevIncomingAckNumber, ackReceiveTimer, sequenceNumber,
                    prevAckedSequenceNumber, queuedOutgoingMatterMessages, sendInProgress,
                    sendAckTimer, isActive, sendLoop, ackWrites, written, delivered,
                    disconnects, accepted, codec >>

\* arguments of createFromHandshakeRequest: maxDataSize absent and around the
\* values where the choice of attMtu changes; a request with wrong flags and
\* requests with version lists [4], [4, 5, 6], [5], [5, 3] and none, a
\* proposed attMtu around 23 and 247 and a window size of 0, 1, 6 and 255
MaxDataSizes == { None } \cup { Some(n) : n \in { 0, 19, 20, 21, 100, 243, 244, 245, 1000 } }
VersionBytes == { << 4, 0, 0, 0 >>, << 4, 86, 0, 0 >>, << 5, 0, 0, 0 >>, << 83, 0, 0, 0 >>,
                  << 0, 0, 0, 0 >> }
PeerAttMtus == { 0, 22, 23, 24, 100, 185, 247, 248, 65535 }
PeerWindowSizes == { 0, 1, 6, 255 }
HandshakeRequests ==
    { HandshakeRequestPayload(101, r[1], r[2], r[3]) :
        r \in VersionBytes \X PeerAttMtus \X PeerWindowSizes }
    \cup { HandshakeRequestPayload(13, << 4, 0, 0, 0 >>, 185, 6) }

\* createFromHandshakeRequest has been called; there is no session yet
InitHandshake ==
    /\ handshake \in { Handshake("called", m, r, None, "none") :
                         m \in MaxDataSizes, r \in HandshakeRequests }
    /\ fragmentSize = None
    /\ clientWindowSize = None
    /\ currentIncomingSegmentedMsgLength = None
    /\ currentIncomingSegmentedPayload = None
    /\ prevIncomingSequenceNumber = 255
    /\ prevIncomingAckNumber = -1
    /\ ackReceiveTimer = FALSE
    /\ sequenceNumber = 0
    /\ prevAckedSequenceNumber = -1
    /\ queuedOutgoingMatterMessages = << >>
    /\ sendInProgress = FALSE
    /\ sendAckTimer = FALSE
    /\ isActive = FALSE
    /\ sendLoop = Idle
    /\ ackWrites = 0
    /\ written = << >>
    /\ delivered = << >>
    /\ disconnects = 0
    /\ accepted = << >>
    /\ lastCall = Call("none", "none", FALSE, { })
    /\ codec = NoCodec

\* the factory call, then the first steps of the session it returned
NextHandshake ==
    \/ CreateFromHandshakeRequest
    \/ \E ok \in BOOLEAN : HandshakeWriteDone(ok)
    \/ /\ handshake.state = "returned"
       /\ sequenceNumber = 0 /\ queuedOutgoingMatterMessages = << >>
       /\ SendMatterMessage(Bytes(2))
    \/ /\ handshake.state = "returned"
       /\ \E ok \in BOOLEAN : WriteBleDone(ok)
    \/ /\ handshake.state # "called"
       /\ \E r \in Reentries : AckTimeoutTriggered(r)

SpecHandshake == InitHandshake /\ [][NextHandshake]_vars

\* ---------------------------------------------------- handshake properties
\* the session object exists: the constructor has run
Constructed == handshake.state \in { "writing", "returned" } \/ handshake.handshakeResponse # None

\* the fields of the request and of the response, read from their bytes
PeerAttMtu == handshake.handshakeRequestPayload[7] + 256 * handshake.handshakeRequestPayload[8]
PeerWindowSize == handshake.handshakeRequestPayload[9]
ResponseVersion == handshake.handshakeResponse[1][3]
ResponseAttMtu == handshake.handshakeResponse[1][4] + 256 * handshake.handshakeResponse[1][5]
ResponseWindowSize == handshake.handshakeResponse[1][6]

C16_ResponseCarriesMaxDataSize ==
    /\ Constructed
    /\ handshake.maxDataSize = Some(100)
    /\ handshake.handshakeRequestPayload \in
          { << 101, 108, 4, 0, 0, 0, 185, 0, 6 >>, << 101, 108, 4, 0, 0, 0, 0, 0, 6 >> }
    => handshake.handshakeResponse = Some(<< 101, 108, 4, 100, 0, 6 >>)

\* C17: for every session createFromHandshakeRequest makes, the negotiated
\* attMtu lies in 23..247, fragmentSize is attMtu - 3, hence in 20..244, and
\* fragmentSize never changes afterwards.
C17_FragmentSize ==
    /\ [](Constructed =>
            /\ ResponseAttMtu \in 23..247
            /\ fragmentSize = ResponseAttMtu - 3
            /\ fragmentSize \in 20..244)
    /\ [][Constructed => fragmentSize' = fragmentSize]_vars

\* a session negotiated at the largest attMtu has sent a frame
C17_Witness ==
    /\ handshake.state = "returned" /\ handshake.maxDataSize = Some(1000)
    /\ ResponseAttMtu = 247 /\ fragmentSize = 244
    /\ Len(written) = 1

\* C18 (as claimed): for every session createFromHandshakeRequest makes,
\* windowSize is min(255, peer.clientWindowSize) and lies in 1..255.
C18_WindowSize ==
    Constructed =>
       /\ clientWindowSize = Min(255, PeerWindowSize)
       /\ ResponseWindowSize = clientWindowSize
       /\ clientWindowSize \in 1..255

\* C19: for a request that decodes, the version chosen is 4 when the peer's
\* list contains 4; when it does not, disconnectBleCallback is invoked exactly
\* once, the call fails with BtpProtocolError, nothing is handed to
\* writeBleCallback, and there is no session and no running timer.
C19_VersionSelection ==
    LET request == DecodeBtpHandshakeRequest(handshake.handshakeRequestPayload) IN
    handshake.state \in { "writing", "returned", "failed" } /\ request.ok =>
       IF \E i \in 1..Len(request.versions) : request.versions[i] = 4
       THEN /\ Constructed /\ ResponseVersion = 4
            /\ handshake.thrown # "BtpProtocolError"
       ELSE /\ handshake.state = "failed" /\ handshake.thrown = "BtpProtocolError"
            /\ disconnects = 1
            /\ handshake.handshakeResponse = None /\ written = << >>
            /\ fragmentSize = None /\ ~isActive
            /\ ~ackReceiveTimer /\ ~sendAckTimer

\* a request that offers versions 5 and 3 has been refused
C19_Witness ==
    /\ handshake.state = "failed" /\ handshake.thrown = "BtpProtocolError"
    /\ DecodeBtpHandshakeRequest(handshake.handshakeRequestPayload).versions = << 5, 3 >>
    /\ disconnects = 1 /\ lastCall.raised

\* C20: the handshake response is handed to writeBleCallback once, before the
\* session is returned and before any frame of the session; when that write
\* fails the call fails with the error and no session is returned, then or
\* later.
C20_ResponseBeforeReturn ==
    /\ [](handshake.state = "returned" => handshake.handshakeResponse # None)
    /\ [](written # << >> => handshake.state = "returned")
    /\ [][ /\ handshake.handshakeResponse # None =>
                handshake'.handshakeResponse = handshake.handshakeResponse
           /\ handshake'.state = "returned" /\ handshake.state # "returned" =>
                handshake.state = "writing" /\ ~lastCall'.raised
           /\ handshake.state = "writing" /\ handshake'.state = "failed" =>
                lastCall'.raised /\ handshake'.thrown = "Error"
           /\ handshake.state = "failed" => handshake'.state = "failed" ]_vars

\* the write of the response failed and the call failed with it
C20_Witness ==
    /\ handshake.state = "failed" /\ handshake.thrown = "Error"
    /\ handshake.handshakeResponse # None
    /\ lastCall.op = "createFromHandshakeRequest" /\ lastCall.raised

\* C21: a sendMatterMessage that fails with BtpFlowError raises it to the
\* caller and changes nothing else: the session stays as active as it was,
\* disconnectBleCallback is not invoked, the queue, the frames written, the
\* counters and the timers keep their values.  It is the empty message that
\* is refused: no queued message is empty, and a sendMatterMessage that does
\* not fail queues its message or writes a frame.
C21_EmptyMessageRefused ==
    /\ [](\A i \in 1..Len(queuedOutgoingMatterMessages) :
             Len(queuedOutgoingMatterMessages[i].buffer) > 0)
    /\ [][ lastCall'.op = "sendMatterMessage" =>
             IF lastCall'.thrown = "BtpFlowError"
             THEN /\ lastCall'.raised
                  /\ UNCHANGED << isActive, disconnects, queuedOutgoingMatterMessages,
                                  written, sequenceNumber, prevAckedSequenceNumber,
                                  prevIncomingSequenceNumber, prevIncomingAckNumber,
                                  ackReceiveTimer, sendAckTimer, sendInProgress,
                                  sendLoop, ackWrites, delivered,
                                  currentIncomingSegmentedMsgLength,
                                  currentIncomingSegmentedPayload >>
             ELSE \/ Len(queuedOutgoingMatterMessages') = Len(queuedOutgoingMatterMessages) + 1
                  \/ Len(written') = Len(written) + 1 ]_vars

\* an empty message was refused on an open session that has accepted a frame
\* and has both timers running
C21_Witness ==
    /\ lastCall.op = "sendMatterMessage" /\ lastCall.thrown = "BtpFlowError"
    /\ lastCall.raised
    /\ isActive /\ disconnects = 0
    /\ accepted # << >> /\ sendAckTimer /\ ackReceiveTimer

\* C22 (as claimed): when writeBleCallback fails in processSendQueue the
\* failure is raised to the caller and the session is not closed; every
\* sendMatterMessage after that fails.
C22_LaterSendsFail ==
    [][ /\ sendLoop.state = "writing" /\ sendLoop'.state = "failed" =>
             /\ lastCall'.raised
             /\ isActive' = isActive /\ disconnects' = disconnects
        /\ sendLoop.state = "failed" /\ lastCall'.op = "sendMatterMessage" =>
             lastCall'.raised ]_vars

\* C23 (as claimed): when a write issued by processSendQueue or by the
\* send-ack callback is in flight while close() runs and completes or fails
\* right after it, no timer is started, no further frame is written and no
\* session state changes.
C23_CompletionIgnoredAfterClose ==
    [][ /\ ~isActive /\ lastCall.op = "close"
        /\ \/ sendLoop.state = "writing" /\ lastCall'.op = "processSendQueue"
           \/ ackWrites' = ackWrites - 1
        => UNCHANGED << ackReceiveTimer, sendAckTimer, written, sequenceNumber,
                        prevAckedSequenceNumber, queuedOutgoingMatterMessages,
                        sendInProgress >> ]_vars

\* ---------------------------------------------------- the inbound size check
\* buffers around the size limit: one-segment messages, and first segments
\* of a message one byte longer, whose buffers have fragmentSize - 1 to
\* fragmentSize + 5 bytes; and the one-byte last segment of such a message
SizeBuffers ==
    LET seq == (prevIncomingSequenceNumber + 1) % 256 IN
    { Buffer(FALSE, FALSE, FALSE, 0, seq, TRUE, TRUE, n - 4, Pad(n - 4), FALSE) :
        n \in (fragmentSize - 1)..(fragmentSize + 5) }
    \cup { Buffer(FALSE, FALSE, FALSE, 0, seq, TRUE, FALSE, n - 3, Pad(n - 4), FALSE) :
        n \in (fragmentSize - 1)..(fragmentSize + 5) }
    \cup { Buffer(FALSE, FALSE, FALSE, 0, seq, FALSE, TRUE, 0, << 0 >>, FALSE) }

NextSizes ==
    \/ /\ isActive
       /\ (prevIncomingSequenceNumber + 1) % 256 < MaxSegments
       /\ Receive(SizeBuffers \cup OtherBuffers)
    \/ \E r \in Reentries : CloseCall(r)

SpecSizes == Init /\ [][NextSizes]_vars

\* the number of bytes of an accepted frame: flags, ack, sequence number,
\* message length, payload
FrameLength(f) ==
    2 + (IF f.ackNumber # None THEN 1 ELSE 0) + (IF f.isBeginningSegment THEN 2 ELSE 0)
      + Len(f.segmentPayload)

\* C24: a buffer of more than fragmentSize + 3 bytes ends in a
\* BtpProtocolError and closes the session with nothing of it taken in (no
\* counter, reassembly state or timer of the inbound path changes, nothing is
\* delivered); a buffer of at most fragmentSize + 3 bytes that breaks no other
\* rule is accepted whether or not it is longer than fragmentSize, and a
\* one-segment message among them is delivered.
C24_SizeCheck ==
    /\ [](\A i \in 1..Len(accepted) : FrameLength(accepted[i]) <= fragmentSize + 3)
    /\ [][ lastCall'.op = "handleIncomingBleData" =>
             /\ "oversized" \in lastCall'.rules =>
                   /\ lastCall'.thrown = "BtpProtocolError"
                   /\ ~isActive' /\ disconnects' = 1
                   /\ UNCHANGED << accepted, delivered, prevIncomingSequenceNumber,
                                   prevIncomingAckNumber,
                                   currentIncomingSegmentedMsgLength,
                                   currentIncomingSegmentedPayload >>
                   /\ ~sendAckTimer'
             /\ lastCall'.rules = { } =>
                   /\ lastCall'.thrown = "none"
                   /\ Len(accepted') = Len(accepted) + 1
                   /\ LET f == accepted'[Len(accepted')] IN
                      f.isBeginningSegment /\ f.isEndingSegment =>
                         delivered' = Append(delivered, f.segmentPayload) ]_vars

\* a one-segment message in a buffer of fragmentSize + 3 bytes was accepted
\* and delivered
C24_Witness ==
    /\ Inbound /\ lastCall.thrown = "none" /\ isActive
    /\ accepted # << >>
    /\ FrameLength(accepted[Len(accepted)]) = fragmentSize + 3
    /\ accepted[Len(accepted)].isEndingSegment
    /\ delivered # << >>
    /\ Len(delivered[Len(delivered)]) = fragmentSize - 1

\* C25: an accepted begin frame found no reassembly in progress and starts
\* one with its payload and message length; an accepted frame without begin
\* flag found one in progress, has a non-empty payload, and its payload is
\* appended; an accepted end frame completes a buffer whose length is the
\* message length of the begin frame, the buffer is delivered and the
\* reassembly state is cleared.  A frame that breaks one of these rules ends
\* in an error, closes the session and delivers nothing.
C25_ReassemblyRules ==
    [][ lastCall'.op = "handleIncomingBleData" =>
          /\ "reassembly" \in lastCall'.rules =>
                /\ lastCall'.thrown # "none"
                /\ ~isActive' /\ disconnects' = 1
                /\ delivered' = delivered /\ accepted' = accepted
          /\ Len(accepted') = Len(accepted) + 1 =>
                LET f == accepted'[Len(accepted')]
                    inProgress == currentIncomingSegmentedPayload # None
                    buffer == IF f.isBeginningSegment THEN f.segmentPayload
                              ELSE currentIncomingSegmentedPayload[1] \o f.segmentPayload
                    announced == IF f.isBeginningSegment THEN f.messageLength
                                 ELSE currentIncomingSegmentedMsgLength
                IN /\ f.isBeginningSegment => ~inProgress
                   /\ ~f.isBeginningSegment => inProgress /\ Len(f.segmentPayload) > 0
                   /\ IF f.isEndingSegment
                      THEN /\ announced = Some(Len(buffer))
                           /\ delivered' = Append(delivered, buffer)
                           /\ currentIncomingSegmentedPayload' = None
                           /\ currentIncomingSegmentedMsgLength' = None
                      ELSE /\ delivered' = delivered
                           /\ currentIncomingSegmentedPayload' = Some(buffer)
                           /\ currentIncomingSegmentedMsgLength' = announced ]_vars

\* a middle segment was appended to the buffer a begin frame started
C25_Witness ==
    /\ Inbound /\ lastCall.thrown = "none" /\ isActive
    /\ Len(accepted) = 2
    /\ accepted[1].isBeginningSegment /\ accepted[1].messageLength = Some(3)
    /\ ~accepted[2].isBeginningSegment /\ ~accepted[2].isEndingSegment
    /\ currentIncomingSegmentedPayload = Some(<< 1, 2 >>)
    /\ currentIncomingSegmentedMsgLength = Some(3)
    /\ delivered = << >>

\* the index of the begin frame of the message the log leaves open, 0 if
\* every message of the log is complete
RECURSIVE OpenSince(_, _, _)
OpenSince(log, i, since) ==
    IF i > Len(log) THEN since
    ELSE OpenSince(log, i + 1,
                   IF log[i].isEndingSegment THEN 0
                   ELSE IF log[i].isBeginningSegment THEN i ELSE since)

\* the payloads of log[from..Len(log)], concatenated
RECURSIVE Gathered(_, _)
Gathered(log, from) ==
    IF from > Len(log) THEN << >>
    ELSE log[from].segmentPayload \o Gathered(log, from + 1)

\* C26 (as claimed): on an active session the reassembly buffer is non-empty
\* exactly when a begin frame has been accepted whose end frame has not.
C26_BufferNonEmptyIffOpen ==
    isActive =>
       ( ( /\ currentIncomingSegmentedPayload # None
           /\ currentIncomingSegmentedPayload[1] # << >> )
         <=> OpenSince(accepted, 1, 0) # 0 )

\* C26 (amended): on an active session the reassembly buffer is present
\* (defined) exactly when a begin frame has been accepted whose end frame has
\* not; it then holds the payloads accepted since that begin frame, which may
\* be no bytes at all, and the message length the begin frame announced.
C26_BufferPresentIffOpen ==
    isActive =>
       LET since == OpenSince(accepted, 1, 0) IN
       IF since # 0
       THEN /\ currentIncomingSegmentedPayload = Some(Gathered(accepted, since))
            /\ currentIncomingSegmentedMsgLength = accepted[since].messageLength
       ELSE /\ currentIncomingSegmentedPayload = None
            /\ currentIncomingSegmentedMsgLength = None

\* a begin frame with an ack and an empty payload was accepted: the
\* reassembly is in progress with an empty buffer
C26_Witness ==
    /\ isActive /\ Len(accepted) = 1
    /\ accepted[1].isBeginningSegment /\ ~accepted[1].isEndingSegment
    /\ accepted[1].ackNumber # None /\ accepted[1].segmentPayload = << >>
    /\ currentIncomingSegmentedPayload = Some(<< >>)

\* how many frames past the initial sequence number 255 a sequence number
\* lies: the comparison of sequence numbers that survives the wrap from 255
\* to 0 (the initial -1 of the acknowledged number counts as 255)
PastInitial(seqNo) == (seqNo + 1) % 256

BtpPacket(hasAck, isBegin, isContinue, isEnd, ack, seq, msgLen, payload) ==
    [ header  |-> [ hasAckNumber        |-> hasAck,
                    isHandshakeRequest  |-> FALSE,
                    hasManagementOpcode |-> FALSE,
                    isEndingSegment     |-> isEnd,
                    isBeginningSegment  |-> isBegin,
                    isContinuingSegment |-> isContinue ],
      payload |-> [ ackNumber      |-> ack,
                    sequenceNumber |-> seq,
                    messageLength  |-> msgLen,
                    segmentPayload |-> payload ] ]

\* The weights of the flags in the first byte: 05 is begin and end, 04 end
\* alone, 0c end and ack, 0d begin, end and ack, 65 a handshake request with
\* management opcode.
BeginBit == 1
ContinueBit == 2
EndBit == 4
AckBit == 8
ManagementBit == 32
HandshakeBit == 64
Flag(set, weight) == IF set THEN weight ELSE 0
HasFlag(byte, weight) == (byte \div weight) % 2 = 1

\* the first byte of an encoded frame
HeaderBits(header) ==
    Flag(header.isHandshakeRequest, HandshakeBit)
    + Flag(header.hasManagementOpcode, ManagementBit)
    + Flag(header.hasAckNumber, AckBit)
    + Flag(header.isEndingSegment, EndBit)
    + Flag(header.isContinuingSegment, ContinueBit)
    + Flag(header.isBeginningSegment, BeginBit)

\* The error encodeBtpPacket fails with, "none" if the fields agree with the
\* flags.  The ack number is looked at before the message length.
\* (FlagMismatchMissingOnly: the variant that only looks for missing fields)
FlagMismatchMissingOnly(packet) ==
    IF packet.header.hasAckNumber /\ packet.payload.ackNumber = None
    THEN "Ack number needs to be set because header flag is set"
    ELSE IF packet.header.isBeginningSegment /\ packet.payload.messageLength = None
    THEN "Message Length needs to be set because paket is a beginning segment"
    ELSE "none"
FlagMismatch(packet) ==
    IF ~packet.header.hasAckNumber /\ packet.payload.ackNumber # None
    THEN "Ack number shouldn't be set because header flag is not set"
    ELSE IF packet.header.hasAckNumber /\ packet.payload.ackNumber = None
    THEN "Ack number needs to be set because header flag is set"
    ELSE IF ~packet.header.isBeginningSegment /\ packet.payload.messageLength # None
    THEN "Message Length shouldn't be set because the package is not a beginning segment"
    ELSE IF packet.header.isBeginningSegment /\ packet.payload.messageLength = None
    THEN "Message Length needs to be set because paket is a beginning segment"
    ELSE "none"

\* an unsigned 16-bit number, least significant byte first
UInt16(n) == << n % 256, (n \div 256) % 256 >>

\* The bytes of a frame whose fields agree with its flags: flags, ack number,
\* sequence number, message length, payload.
\* (PacketBytesSequenceFirst: the variant that writes the sequence number
\* before the ack number)
PacketBytesSequenceFirst(packet) ==
    << HeaderBits(packet.header) >>
    \o << packet.payload.sequenceNumber >>
    \o packet.payload.ackNumber
    \o (IF packet.payload.messageLength = None THEN << >>
        ELSE UInt16(packet.payload.messageLength[1]))
    \o packet.payload.segmentPayload
PacketBytes(packet) ==
    << HeaderBits(packet.header) >>
    \o packet.payload.ackNumber
    \o << packet.payload.sequenceNumber >>
    \o (IF packet.payload.messageLength = None THEN << >>
        ELSE UInt16(packet.payload.messageLength[1]))
    \o packet.payload.segmentPayload

\* BtpCodec.encodeBtpPacket: the bytes, or the error it throws
EncodeBtpPacket(packet) ==
    LET mismatch == FlagMismatch(packet) IN
    IF mismatch # "none"
    THEN [ ok |-> FALSE, thrown |-> mismatch, bytes |-> None ]
    ELSE [ ok |-> TRUE, thrown |-> "none", bytes |-> Some(PacketBytes(packet)) ]

\* The fields a byte array carries, as decodeBtpPacket reads them: the flag
\* byte, then the fields it announces; `truncated` if the bytes end before
\* them.
ReadBuffer(bytes) ==
    IF Len(bytes) = 0
    THEN Buffer(FALSE, FALSE, FALSE, 0, 0, FALSE, FALSE, 0, << >>, TRUE)
    ELSE LET hs        == HasFlag(bytes[1], HandshakeBit)
             mgmt      == HasFlag(bytes[1], ManagementBit)
             hasAck    == HasFlag(bytes[1], AckBit)
             isBegin   == HasFlag(bytes[1], BeginBit)
             isEnd     == HasFlag(bytes[1], EndBit)
             ackAt     == 2 + (IF mgmt THEN 1 ELSE 0)
             seqAt     == ackAt + (IF hasAck THEN 1 ELSE 0)
             lenAt     == seqAt + 1
             payloadAt == lenAt + (IF isBegin THEN 2 ELSE 0)
         IN IF Len(bytes) < payloadAt - 1
            THEN Buffer(hs, mgmt, hasAck, 0, 0, isBegin, isEnd, 0, << >>, TRUE)
            ELSE Buffer(hs, mgmt, hasAck, IF hasAck THEN bytes[ackAt] ELSE 0,
                        bytes[seqAt], isBegin, isEnd,
                        IF isBegin THEN bytes[lenAt] + 256 * bytes[lenAt + 1] ELSE 0,
                        SubSeq(bytes, payloadAt, Len(bytes)), FALSE)

\* a test calls encodeBtpPacket(packet)
EncodeBtpPacketCall(packet) ==
    /\ codec' = Codec("encodeBtpPacket", Some(packet), Some(EncodeBtpPacket(packet)), None)
    /\ UNCHANGED << handshake, fragmentSize, clientWindowSize,
                    currentIncomingSegmentedMsgLength,
                    currentIncomingSegmentedPayload, prevIncomingSequenceNumber,
                    prevIncomingAckNumber, ackReceiveTimer, sequenceNumber,
                    prevAckedSequenceNumber, queuedOutgoingMatterMessages, sendInProgress,
                    sendAckTimer, isActive, sendLoop, ackWrites, written, delivered,
                    disconnects, accepted, lastCall >>

\* a test calls decodeBtpPacket on the bytes encodeBtpPacket returned
DecodeBtpPacketCall ==
    /\ codec.op = "encodeBtpPacket"
    /\ codec.encoded[1].ok
    /\ codec' = [codec EXCEPT !.op = "decodeBtpPacket",
                              !.decoded = Some(DecodeBtpPacket(
                                                 ReadBuffer(codec.encoded[1].bytes[1])))]
    /\ UNCHANGED << handshake, fragmentSize, clientWindowSize,
                    currentIncomingSegmentedMsgLength,
                    currentIncomingSegmentedPayload, prevIncomingSequenceNumber,
                    prevIncomingAckNumber, ackReceiveTimer, sequenceNumber,
                    prevAckedSequenceNumber, queuedOutgoingMatterMessages, sendInProgress,
                    sendAckTimer, isActive, sendLoop, ackWrites, written, delivered,
                    disconnects, accepted, lastCall >>

\* frames handed to encodeBtpPacket: every combination of the four flags of a
\* data frame, the ack number absent, 0 and 255, the sequence number 0, 1 and
\* 255, the message length absent, 0x44, 0x144 and 0xffff, a payload of no,
\* one and two bytes
CodecAckNumbers == { None, Some(0), Some(255) }
CodecSequenceNumbers == { 0, 1, 255 }
CodecMessageLengths == { None, Some(68), Some(324), Some(65535) }
CodecPayloads == { << >>, << 4 >>, << 9, 8 >> }
CodecPackets ==
    { BtpPacket(f[1], f[2], f[3], f[4], v[1], v[2], v[3], v[4]) :
        f \in BOOLEAN \X BOOLEAN \X BOOLEAN \X BOOLEAN,
        v \in CodecAckNumbers \X CodecSequenceNumbers \X CodecMessageLengths
              \X CodecPayloads }

\* the codec on its own: frames are encoded and the bytes decoded again
NextCodec ==
    \/ \E packet \in CodecPackets : EncodeBtpPacketCall(packet)
    \/ DecodeBtpPacketCall

SpecCodec == Init /\ [][NextCodec]_vars

\* ------------------------------------------------------- codec properties
\* the fields of the frame handed to encodeBtpPacket agree with its flags
FieldsMatchFlags(packet) ==
    /\ packet.header.hasAckNumber <=> packet.payload.ackNumber # None
    /\ packet.header.isBeginningSegment <=> packet.payload.messageLength # None

\* the bytes hold, one after the other: the flags, the ack number if there is
\* one, the sequence number, the message length if there is one as two bytes
\* with the least significant first, the payload
SerializedInOrder(packet, bytes) ==
    LET ackLen == IF packet.header.hasAckNumber THEN 1 ELSE 0
        lenLen == IF packet.header.isBeginningSegment THEN 2 ELSE 0
    IN /\ Len(bytes) = 2 + ackLen + lenLen + Len(packet.payload.segmentPayload)
       /\ HasFlag(bytes[1], AckBit) = packet.header.hasAckNumber
       /\ HasFlag(bytes[1], BeginBit) = packet.header.isBeginningSegment
       /\ HasFlag(bytes[1], EndBit) = packet.header.isEndingSegment
       /\ packet.header.hasAckNumber => bytes[2] = packet.payload.ackNumber[1]
       /\ bytes[2 + ackLen] = packet.payload.sequenceNumber
       /\ packet.header.isBeginningSegment =>
             bytes[3 + ackLen] + 256 * bytes[4 + ackLen] = packet.payload.messageLength[1]
       /\ SubSeq(bytes, 3 + ackLen + lenLen, Len(bytes)) = packet.payload.segmentPayload

\* C28 (as claimed): decoding the bytes of a frame whose fields agree with
\* its flags gives the frame back, and the bytes hold the fields in the order
\* flags, ack number, sequence number, message length, payload.
C28_RoundTrip ==
    codec.op = "decodeBtpPacket" =>
       LET packet  == codec.frame[1]
           decoded == codec.decoded[1]
       IN /\ FieldsMatchFlags(packet)
          /\ decoded.ok
          /\ [ header |-> decoded.header, payload |-> decoded.payload ] = packet
          /\ SerializedInOrder(packet, codec.encoded[1].bytes[1])

\* C28 (amended): decoding the bytes of a frame whose fields agree with its
\* flags gives back its payload fields and its flags, except that the
\* continuing flag comes back as the negation of the beginning flag; the
\* frame itself comes back when its continuing flag is that negation.  The
\* bytes hold the fields in the order flags, ack number, sequence number,
\* message length, payload.
C28_RoundTripUpToContinuing ==
    codec.op = "decodeBtpPacket" =>
       LET packet  == codec.frame[1]
           decoded == codec.decoded[1]
       IN /\ FieldsMatchFlags(packet)
          /\ decoded.ok
          /\ decoded.payload = packet.payload
          /\ decoded.header =
                [packet.header EXCEPT !.isContinuingSegment =
                                          ~packet.header.isBeginningSegment]
          /\ (packet.header.isContinuingSegment = ~packet.header.isBeginningSegment
                => [ header |-> decoded.header, payload |-> decoded.payload ] = packet)
          /\ SerializedInOrder(packet, codec.encoded[1].bytes[1])

\* the frame with ack 0, sequence number 0, begin and end flags and a message
\* length of 0x144 was encoded as 0d 00 00 44 01 and its payload, and decoded
\* to itself
C28_Witness ==
    /\ codec.op = "decodeBtpPacket"
    /\ codec.frame[1] =
          BtpPacket(TRUE, TRUE, FALSE, TRUE, Some(0), 0, Some(324), << 9, 8 >>)
    /\ codec.encoded[1].bytes[1] = << 13, 0, 0, 68, 1, 9, 8 >>
    /\ codec.decoded[1].ok
    /\ [ header |-> codec.decoded[1].header,
         payload |-> codec.decoded[1].payload ] = codec.frame[1]

\* C29: encodeBtpPacket fails, with the error of the first disagreement and
\* without bytes, on every frame whose ack number is present without the ack
\* flag or absent with it, or whose message length is present without the
\* begin flag or absent with it; it fails on no other frame.
C29_MismatchRejected ==
    codec.op = "encodeBtpPacket" =>
       LET packet  == codec.frame[1]
           encoded == codec.encoded[1]
       IN /\ ~FieldsMatchFlags(packet) <=> ~encoded.ok
          /\ ~encoded.ok => encoded.bytes = None /\ encoded.thrown # "none"
          /\ encoded.ok => encoded.bytes # None
          /\ (~packet.header.hasAckNumber /\ packet.payload.ackNumber # None)
                => encoded.thrown =
                      "Ack number shouldn't be set because header flag is not set"
          /\ (packet.header.hasAckNumber /\ packet.payload.ackNumber = None)
                => encoded.thrown = "Ack number needs to be set because header flag is set"

\* the frame of the test with an ack number but no ack flag, and a begin flag
\* but no message length, was refused for its ack number
C29_Witness ==
    /\ codec.op = "encodeBtpPacket"
    /\ ~codec.frame[1].header.hasAckNumber
    /\ codec.frame[1].payload.ackNumber = Some(255)
    /\ codec.frame[1].header.isBeginningSegment
    /\ codec.frame[1].payload.messageLength = None
    /\ ~codec.encoded[1].ok
    /\ codec.encoded[1].bytes = None
    /\ codec.encoded[1].thrown = "Ack number shouldn't be set because header flag is not set"

\* ------------------------------------------------------ piggybacked acks
\* the step is a sendMatterMessage made from the handleMatterMessagePayload
\* callback of the inbound call that ran last, and it builds a frame at once:
\* the callback is the last statement of handleIncomingBleData, so the send
\* finds the session as that call leaves it
SendsFromDelivery ==
    /\ isActive
    /\ lastCall.op = "handleIncomingBleData" /\ lastCall.thrown = "none"
    /\ accepted # << >> /\ accepted[Len(accepted)].isEndingSegment
    /\ lastCall'.op = "sendMatterMessage"
    /\ Len(written') = Len(written) + 1

\* a data frame of processSendQueue follows the rule of the raw comparison:
\* it carries an ack exactly when prevIncomingSequenceNumber is greater than
\* prevAckedSequenceNumber, the ack number is then prevIncomingSequenceNumber,
\* which becomes prevAckedSequenceNumber, and the send-ack timer is stopped
PiggybackRule ==
    LET f    == written'[Len(written')]
        owed == prevIncomingSequenceNumber > prevAckedSequenceNumber
    IN /\ f.hasAckNumber <=> owed
       /\ owed => /\ f.ackNumber = Some(prevIncomingSequenceNumber)
                  /\ prevAckedSequenceNumber' = prevIncomingSequenceNumber
                  /\ ~sendAckTimer'
       /\ ~owed => /\ f.ackNumber = None
                   /\ UNCHANGED << prevAckedSequenceNumber, sendAckTimer >>

\* C30 (as claimed): every data frame processSendQueue emits follows the
\* piggyback rule, and a message sent from the delivery callback goes out in
\* a frame that acknowledges the inbound frame that completed the delivered
\* message.
C30_Piggyback ==
    [][ /\ EmitsDataFrame => PiggybackRule
        /\ SendsFromDelivery =>
              written'[Len(written')].ackNumber
                 = Some(accepted[Len(accepted)].sequenceNumber) ]_vars

\* ------------------------------------------------- the ack-receive timer
\* no call of the session is suspended in writeBleCallback, no send loop
\* ended there with a failed write, and the call that ran last ended without
\* an error
NoStepInProgress ==
    sendLoop.state = "idle" /\ ackWrites = 0 /\ lastCall.thrown = "none"

\* C31 (as claimed): whenever the session is active and no step is in
\* progress, the ack-receive timer runs exactly when a sent frame is still
\* unacknowledged, that is when prevIncomingAckNumber differs from
\* sequenceNumber.
C31_AckTimerIffOutstanding ==
    (isActive /\ NoStepInProgress) =>
       (ackReceiveTimer <=> prevIncomingAckNumber # sequenceNumber)

\* ------------------------------------------------- resuming a stalled queue
\* The outbound path with its scheduling: a write handed to the transport
\* settles and the call that waits for it resumes; a running send-ack timer
\* fires.
SpecResume ==
    /\ InitOutbound
    /\ [][NextOutbound]_vars
    /\ WF_vars(sequenceNumber < MaxFrames /\ \E ok \in BOOLEAN : WriteBleDone(ok))
    /\ WF_vars(\E ok \in BOOLEAN : AckWriteDone(ok))
    /\ WF_vars(sequenceNumber < MaxFrames /\ SendAckTimeoutTriggered)

\* messages wait in the queue of an active session although the window is
\* open and no send loop runs
Stalled ==
    /\ isActive
    /\ queuedOutgoingMatterMessages # << >>
    /\ ~sendInProgress
    /\ ~WindowFull(sequenceNumber, prevIncomingAckNumber, clientWindowSize)

\* C32 (as claimed): queued messages do not wait forever behind an open
\* window: once the peer's acks have reopened the window the session leaves
\* the stalled state by itself, so it is never stalled from some point on
\* for ever.
C32_QueuedEventuallySent == []<>~Stalled

\* ------------------------------------------------------ emitted ack numbers
\* C33 (as claimed): every frame an active session hands to the transport
\* with an ack number, data frame or stand-alone ack, acknowledges the inbound
\* frame accepted last; a frame written before any inbound frame was accepted
\* carries no ack.
C33_AckOfAcceptedFrame ==
    [][ (isActive /\ Len(written') = Len(written) + 1) =>
          LET f == written'[Len(written')] IN
          f.ackNumber # None =>
             /\ accepted # << >>
             /\ f.ackNumber = Some(accepted[Len(accepted)].sequenceNumber) ]_vars

\* ------------------------------------------------ a long-running session
\* frames the session writes in SpecWrap: enough for the outgoing sequence
\* number to pass 255
MaxSent == 258

\* the number of frames sent and not yet acknowledged, and the oldest of them
Outstanding == (sequenceNumber - prevIncomingAckNumber) % 256
OldestOutstanding == (prevIncomingAckNumber + 1) % 256

\* what the peer sends in SpecWrap: a one-segment message with the expected
\* sequence number that acknowledges the oldest frame still outstanding
WrapPeerBuffer ==
    Buffer(FALSE, FALSE, TRUE, OldestOutstanding,
           (prevIncomingSequenceNumber + 1) % 256, TRUE, TRUE, 1, << 1 >>, FALSE)

\* the owner sends a one-byte message whenever fewer frames than the window
\* holds are outstanding and no send loop runs, every write completes, and
\* the peer acknowledges the oldest frame once the window is used up
NextWrap ==
    \/ /\ isActive /\ Len(written) < MaxSent
       /\ sendLoop.state = "idle" /\ queuedOutgoingMatterMessages = << >>
       /\ Outstanding < clientWindowSize
       /\ SendMatterMessage(Bytes(1))
    \/ WriteBleDone(TRUE)
    \/ /\ isActive /\ sendLoop.state = "idle"
       /\ Outstanding = clientWindowSize
       /\ HandleIncomingBleData(WrapPeerBuffer, "BtpProtocolError", 0)

SpecWrap == Init /\ [][NextWrap]_vars

\* buffers with the expected sequence number whose ack number is the number
\* of a frame sent and not yet acknowledged, counted modulo 256
AckingBuffers ==
    { Buffer(FALSE, FALSE, TRUE, (prevIncomingAckNumber + n) % 256,
             (prevIncomingSequenceNumber + 1) % 256, TRUE, TRUE, 1, << 1 >>, FALSE) :
        n \in 1..Outstanding }

\* C34 (as claimed): an ack for a frame that was sent and is not yet
\* acknowledged is accepted and the session stays open, also after the
\* outgoing sequence number has wrapped from 255 to 0.
C34_OutstandingAckAccepted ==
    [][ ( /\ isActive
          /\ \E data \in AckingBuffers :
                HandleIncomingBleData(data, "BtpProtocolError", 0) )
        => isActive' /\ lastCall'.thrown = "none" ]_vars

\* ------------------------------------------------------ the send-ack timer
\* the step is the expiry of the send-ack timer
SendAckExpiry ==
    /\ lastCall'.op = "btpSendAckTimeoutTriggered"
    /\ sendAckTimer /\ ~sendAckTimer'

\* the stand-alone ack the expiry writes
StandaloneAck(ack, seq) ==
    [ hasAckNumber        |-> TRUE,
      isBeginningSegment  |-> FALSE,
      isContinuingSegment |-> FALSE,
      isEndingSegment     |-> FALSE,
      ackNumber           |-> Some(ack),
      sequenceNumber      |-> seq,
      messageLength       |-> None,
      segmentPayload      |-> << >> ]

\* C35: when the send-ack timer expires and prevIncomingSequenceNumber is
\* greater than prevAckedSequenceNumber, exactly one frame is written, a
\* stand-alone ack of prevIncomingSequenceNumber with the next outgoing
\* sequence number, and prevAckedSequenceNumber becomes
\* prevIncomingSequenceNumber; once its write has completed the ack-receive
\* timer runs.  When no ack is owed the expiry writes nothing and changes
\* nothing but the timer that expired.  Every accepted inbound frame leaves
\* the send-ack timer running.
C35_SendAckExpiry ==
    [][ /\ (SendAckExpiry /\ prevIncomingSequenceNumber > prevAckedSequenceNumber) =>
             /\ sequenceNumber' = (sequenceNumber + 1) % 256
             /\ written' = Append(written,
                                  StandaloneAck(prevIncomingSequenceNumber, sequenceNumber'))
             /\ prevAckedSequenceNumber' = prevIncomingSequenceNumber
             /\ ackWrites' = ackWrites + 1
             /\ UNCHANGED << prevIncomingSequenceNumber, prevIncomingAckNumber, isActive,
                             queuedOutgoingMatterMessages, sendInProgress, delivered,
                             disconnects, currentIncomingSegmentedPayload,
                             currentIncomingSegmentedMsgLength >>
        /\ (SendAckExpiry /\ ~(prevIncomingSequenceNumber > prevAckedSequenceNumber)) =>
             UNCHANGED << written, sequenceNumber, prevAckedSequenceNumber, ackWrites,
                          ackReceiveTimer, prevIncomingSequenceNumber,
                          prevIncomingAckNumber, isActive, queuedOutgoingMatterMessages,
                          sendInProgress, sendLoop, delivered, disconnects,
                          currentIncomingSegmentedPayload,
                          currentIncomingSegmentedMsgLength >>
        /\ (ackWrites' = ackWrites - 1 /\ lastCall'.thrown = "none") => ackReceiveTimer'
        /\ accepted' # accepted => sendAckTimer' ]_vars

\* the timer expired with an ack owed for frame 0, the stand-alone ack was
\* written with sequence number 1 and its write has completed
C35_Witness ==
    /\ isActive
    /\ lastCall.op = "btpSendAckTimeoutTriggered" /\ lastCall.thrown = "none"
    /\ ackWrites = 0 /\ ~sendAckTimer
    /\ written = << StandaloneAck(0, 1) >>
    /\ prevAckedSequenceNumber = 0 /\ prevIncomingSequenceNumber = 0
    /\ ackReceiveTimer

\* ------------------------------------------------------------ re-entrancy
\* the frames of `log` that carry a segment of a message
IsDataFrame(f) == f.segmentPayload # << >>
DataFrames(log) == SelectSeq(log, IsDataFrame)

\* the payloads of the data frames at the end of `frames`, back to the last
\* begin frame, concatenated
RECURSIVE SentOfMessage(_)
SentOfMessage(frames) ==
    IF frames = << >> THEN << >>
    ELSE LET f == frames[Len(frames)] IN
         IF f.isBeginningSegment THEN f.segmentPayload
         ELSE SentOfMessage(SubSeq(frames, 1, Len(frames) - 1)) \o f.segmentPayload

\* C36: at most one send loop is active; a sendMatterMessage made while a
\* loop is active writes nothing and puts its message behind the queued
\* ones; the queue only loses its head, when that message has been read to
\* its end, and only grows at its end; every data frame continues the message
\* at the head of the queue, so that a begin frame is only written after the
\* end frame of the message before it.
C36_SendLoopReentrancy ==
    [][ LET queue  == queuedOutgoingMatterMessages
            queue2 == queuedOutgoingMatterMessages'
            frames == DataFrames(written')
        IN /\ sendLoop'.state = "writing" => sendInProgress'
           /\ (lastCall'.op = "sendMatterMessage" /\ lastCall'.thrown = "none"
                  /\ sendInProgress) =>
                 /\ written' = written
                 /\ sendLoop' = sendLoop
                 /\ Len(queue2) = Len(queue) + 1
                 /\ SubSeq(queue2, 1, Len(queue)) = queue
                 /\ queue2[Len(queue2)].offset = 0
           /\ \E drop \in { 0, 1 }, add \in { 0, 1 } :
                 /\ drop <= Len(queue)
                 /\ Len(queue2) = Len(queue) - drop + add
                 /\ \A i \in 1..(Len(queue) - drop) :
                       queue2[i].buffer = queue[i + drop].buffer
                 /\ drop = 1 => /\ lastCall'.op = "processSendQueue"
                                /\ queue[1].offset = Len(queue[1].buffer)
                 /\ add = 1 => lastCall'.op = "sendMatterMessage"
           /\ \A i \in 1..Len(frames) :
                 frames[i].isBeginningSegment <=> (i = 1 \/ frames[i - 1].isEndingSegment)
           /\ EmitsDataFrame =>
                 SentOfMessage(frames) = SubSeq(queue2[1].buffer, 1, queue2[1].offset) ]_vars

\* a second message was handed to sendMatterMessage while the loop was
\* suspended in the write of the first: it waits behind it, unread
C36_Witness ==
    /\ lastCall.op = "sendMatterMessage" /\ lastCall.thrown = "none"
    /\ sendLoop.state = "writing" /\ sendInProgress
    /\ Len(written) = 1
    /\ Len(queuedOutgoingMatterMessages) = 2
    /\ queuedOutgoingMatterMessages[1].offset > 0
    /\ queuedOutgoingMatterMessages[2].offset = 0
    /\ queuedOutgoingMatterMessages[2].buffer # queuedOutgoingMatterMessages[1].buffer

\* ------------------------------------------- the outgoing sequence number
\* C37: the outgoing sequence number stays within 0..255; it is 0 until the
\* first frame is written; whenever it changes it goes up by one, or from 255
\* to 0; the first frame written carries 1 and the 256th carries 0.
C37_SequenceNumberWraps ==
    [][ /\ sequenceNumber' \in 0..255
        /\ written = << >> => sequenceNumber = 0
        /\ sequenceNumber' # sequenceNumber =>
              /\ sequenceNumber' = IF sequenceNumber = 255 THEN 0 ELSE sequenceNumber + 1
              /\ Len(written') = Len(written) + 1
              /\ written'[Len(written')].sequenceNumber = sequenceNumber'
        /\ Len(written') >= 1 => written'[1].sequenceNumber = 1
        /\ Len(written') >= 256 => written'[256].sequenceNumber = 0 ]_vars

\* the 256th frame has been written: the sequence number is back at 0
C37_Witness ==
    /\ Len(written) = 256
    /\ written[255].sequenceNumber = 255
    /\ written[256].sequenceNumber = 0
    /\ sequenceNumber = 0

\* ------------------------------------------- a failed handshake response
\* the call of createFromHandshakeRequest failed in its write: the response
\* had been handed to writeBleCallback and the write was rejected
HandshakeWriteFailed(call) == call.state = "failed" /\ call.handshakeResponse # None

\* C38: once the write of the handshake response has failed, no timer of the
\* session is running, and nothing that happens afterwards is an ack timeout
\* of that session or calls the disconnect callback.
C38_AbortedCleanly ==
    [][ HandshakeWriteFailed(handshake') =>
          /\ ~ackReceiveTimer' /\ ~sendAckTimer'
          /\ HandshakeWriteFailed(handshake) =>
                /\ disconnects' = disconnects
                /\ lastCall'.op # "btpAckTimeoutTriggered" ]_vars

\* ------------------------------------------------ an inbound ack-only frame
\* the ack-only buffers the peer may send now: ack flag set, no begin and no
\* end flag, no payload, the expected sequence number, and an ack number
\* above the last one received and not above the last sequence number sent
AckOnlyBuffers ==
    { Buffer(FALSE, FALSE, TRUE, a, (prevIncomingSequenceNumber + 1) % 256,
             FALSE, FALSE, 0, << >>, FALSE) :
        a \in { n \in 0..255 : prevIncomingAckNumber < n /\ n <= sequenceNumber } }

\* C39: an ack-only frame with the expected sequence number and a valid ack
\* number is accepted: the session stays active, both inbound counters take
\* the frame's numbers, nothing is delivered and the reassembly state is as
\* it was.
C39_AckOnlyAccepted ==
    [][ \A data \in AckOnlyBuffers, r \in Reentries :
          (isActive /\ HandleIncomingBleData(data, "BtpProtocolError", r)) =>
             /\ isActive' /\ lastCall'.thrown = "none"
             /\ prevIncomingSequenceNumber' = data.sequenceNumber
             /\ prevIncomingAckNumber' = data.ackNumber[1]
             /\ delivered' = delivered
             /\ currentIncomingSegmentedPayload' = currentIncomingSegmentedPayload
             /\ currentIncomingSegmentedMsgLength' = currentIncomingSegmentedMsgLength ]_vars

\* ------------------------------------------------------ mid-stream overflow
\* appending the payload of `data` to the reassembly buffer would make it
\* longer than the message length the begin frame announced
WouldOverflow(data) ==
    /\ currentIncomingSegmentedPayload # None
    /\ ~data.isBeginningSegment
    /\ Len(currentIncomingSegmentedPayload[1]) + Len(data.segmentPayload)
          > currentIncomingSegmentedMsgLength[1]

\* C40: a frame without begin flag whose payload would make the reassembly
\* buffer longer than the announced message length is rejected when it is
\* received, whether or not it carries the end flag: the call fails with a
\* protocol error and the session is closed and disconnected.
C40_MidStreamOverflowRejected ==
    [][ \A data \in ReassemblyBuffers, r \in Reentries :
          (isActive /\ WouldOverflow(data)
             /\ HandleIncomingBleData(data, "BtpProtocolError", r)) =>
             /\ lastCall'.thrown = "BtpProtocolError"
             /\ ~isActive'
             /\ disconnects' > disconnects ]_vars

====
